---- MODULE Spec2Model ----
(***************************************************************************)
(* securedgram-psk-aes: a client-side DTLS 1.0 (PSK) datagram socket.      *)
(*                                                                         *)
(* The model covers the endpoint (DtlsSocket: session set, outbound        *)
(* lookup, inbound routing), the session (DtlsSession: handshake handlers, *)
(* epochs, sequence numbers, cipher states, transcript, message queue)     *)
(* and the record layer's decode outcome.                                  *)
(*                                                                         *)
(* Bytes are modelled symbolically.  A handshake message on the wire is a  *)
(* record of its header fields and body; the transcript                    *)
(* (allHandshakeMessagesAsBuffer) is the sequence of such messages in the  *)
(* order they were concatenated.  Hashes, HMACs and the PRF are treated as *)
(* injective: a PRF output is the record of its inputs, so two outputs are *)
(* equal exactly when label, secret and seed are.                          *)
(*                                                                         *)
(* An exception that leaves a handler (a TypeError on a null parse result, *)
(* the ReferenceError in ClientHelloMessage.create, a send on a closed     *)
(* socket) is uncaught: the assignments made before the throw stay, the    *)
(* rest of the handler does not run, and the process ends (crashed).       *)
(***************************************************************************)
EXTENDS Integers, Sequences, FiniteSets, TLC

(***************************************************************************)
(* Bounds of the model.                                                    *)
(***************************************************************************)
MaxSends == 3        \* calls of DtlsSocket.send by the application
MaxFaults == 1       \* datagrams that reach the socket outside the server's script
MaxPeerData == 1     \* application payloads the server sends once it has finished

(***************************************************************************)
(* enums.js.  Enumeration members are modelled by their names; a JS null   *)
(* field is "null".  enums.SessionState has no member Connected: the       *)
(* expression enums.SessionState.Connected evaluates to undefined, a value *)
(* different from the three members, which is what Connected stands for.   *)
(***************************************************************************)
NotConnected == "NotConnected"
ClientHelloSent == "ClientHelloSent"
FinishedSent == "FinishedSent"
Connected == "undefined"

DtlsChangeCipherSpecProtocol == "DtlsChangeCipherSpecProtocol"
DtlsAlertProtocol == "DtlsAlertProtocol"
DtlsHandshakeProtocol == "DtlsHandshakeProtocol"
DtlsApplicationDataProtocol == "DtlsApplicationDataProtocol"

TLS_PSK_WITH_AES_128_CBC_SHA == 140
TLS_PSK_WITH_AES_256_CBC_SHA == 141
TLS_NULL_WITH_NULL_NULL == 0

CloseNotify == 0
BadRecordMac == 20
Warning == 1
Fatal == 2

JsNull == "null"

getMacAlgorithmHashSize(macAlgorithm) ==
    CASE macAlgorithm = "SHA1" -> 20
      [] macAlgorithm = "NULL" -> 0
      [] OTHER -> -1   \* the source returns null

getBulkAlgorithmKeySize(bulkEncryptionAlgorithm) ==
    CASE bulkEncryptionAlgorithm = "AES_128_CBC" -> 16
      [] bulkEncryptionAlgorithm = "AES_256_CBC" -> 32
      [] bulkEncryptionAlgorithm = "NULL" -> 0
      [] OTHER -> -1   \* the source returns null

DtlsConnectionState(bulkEncryptionAlgorithm, compressionMethod, macAlgorithm) ==
    [bulkEncryptionAlgorithm |-> bulkEncryptionAlgorithm,
     compressionMethod |-> compressionMethod,
     macAlgorithm |-> macAlgorithm]

NullConnectionState == DtlsConnectionState("NULL", "NULL", "NULL")

(***************************************************************************)
(* The application's inputs.  A PSK identity is a Buffer (both versions of *)
(* PskClientKeyExchangeMessage.create reject anything else), so it is an   *)
(* object: ref is the object's identity, bytes its contents.  The JS       *)
(* comparison === on two identities compares the objects, which here is    *)
(* equality of the records (two records with the same ref are the same     *)
(* object).  The PSK secret is a string, compared by value.                *)
(***************************************************************************)
StrangerAddress == "10.0.0.9"
PeerPort == 5684
StrangerPort == 5685
\* What the application passes to DtlsSocket.send as host, identity and
\* secret: two destinations, for the first one a second Buffer holding the
\* same identity bytes, and a host name.
SendKeys ==
    {<<"10.0.0.1", [ref |-> 1, bytes |-> "Client_identity"], "psk1">>,
     <<"10.0.0.1", [ref |-> 2, bytes |-> "Client_identity"], "psk1">>,
     <<"10.0.0.2", [ref |-> 1, bytes |-> "Client_identity"], "psk1">>,
     <<"server.example", [ref |-> 1, bytes |-> "Client_identity"], "psk1">>}

\* What the resolver hands to its callback for a host name: an error (by
\* its code) and no addresses, or null and the addresses.
Resolutions(host) ==
    {[err |-> "ENOTFOUND", addresses |-> << >>]}
    \cup IF host = "server.example"
         THEN {[err |-> "null", addresses |-> <<"10.0.0.1">>]}
         ELSE {}

\* dgram.createSocket(type): the families an endpoint is built for.
SocketTypes == {"udp4", "udp6"}

\* The server at ServerAddress:PeerPort answers; neither the stranger's
\* address nor the stranger's port is anybody's destination.
ServerAddress == "10.0.0.1"
Sources == {<<ServerAddress, PeerPort>>, <<StrangerAddress, PeerPort>>,
            <<ServerAddress, StrangerPort>>}

(***************************************************************************)
(* Symbolic cryptography (CryptoUtils.js).                                 *)
(***************************************************************************)
NoSecret == [kind |-> "null"]

createPremasterSecret_FromPresharedKey(psk) == [kind |-> "premaster", psk |-> psk]

\* PRF(secret, label, seed, outputLength): injective in its inputs.
PRF(secret, label, seed, outputLength) ==
    [kind |-> "prf", secret |-> secret, label |-> label, seed |-> seed,
     outputLength |-> outputLength]

\* keyBlockAsBuffer.copy(target, 0, offset, offset + length)
KeyBlockSlice(keyBlock, offset, length) ==
    [kind |-> "slice", of |-> keyBlock, offset |-> offset, length |-> length]

\* MD5(transcript) || SHA1(transcript)
TranscriptHash(transcript) == [kind |-> "md5sha1", of |-> transcript]

(***************************************************************************)
(* SecurityParameters.create(): every field starts out null.               *)
(***************************************************************************)
SecurityParametersCreate ==
    [clientRandom |-> JsNull,
     serverRandom |-> JsNull,
     masterSecret |-> NoSecret,
     bulkEncryptionAlgorithm |-> JsNull,
     macAlgorithm |-> JsNull,
     compressionMethod |-> JsNull,
     clientWriteMacSecret |-> NoSecret,
     serverWriteMacSecret |-> NoSecret,
     clientWriteKey |-> NoSecret,
     serverWriteKey |-> NoSecret]

(***************************************************************************)
(* function DtlsSession(socket, dtlsSocket): the state after construction. *)
(* connectMsg is the msg captured by the connect listener that             *)
(* DtlsSocket.send registers for the session.                              *)
(***************************************************************************)
NewDtlsSession ==
    [dstIpAddress |-> JsNull,
     dstPort |-> 0,
     pskIdentity |-> [ref |-> 0, bytes |-> JsNull],
     pskPassword |-> JsNull,
     nextOutgoingEpoch |-> 0,
     nextOutgoingSequenceNumber |-> 0,
     currentReadState |-> NullConnectionState,
     currentWriteState |-> NullConnectionState,
     securityParameters |-> SecurityParametersCreate,
     handshakeMessageSequence |-> 0,
     allHandshakeMessagesAsBuffer |-> << >>,
     sessionState |-> NotConnected,
     messageQueue |-> << >>,
     connectMsg |-> 0]

(***************************************************************************)
(* Handshake messages (DtlsHandshakeMessage.createFromMessageBuffer): the  *)
(* 12-byte header's fields and the body.  length and fragmentLength are    *)
(* the body's length and fragmentOffset is 0 in every message the session  *)
(* builds; lengthIsBody records that.                                      *)
(***************************************************************************)
createFromMessageBuffer(type, messageSequence, fragmentOffset, messageBuffer) ==
    [messageType |-> type,
     messageSequence |-> messageSequence,
     fragmentOffset |-> fragmentOffset,
     lengthIsBody |-> TRUE,
     message |-> messageBuffer]

\* ClientHelloMessage.create(...).toBuffer(): the offered suites, in order.
supportedCipherSuites == <<TLS_PSK_WITH_AES_256_CBC_SHA, TLS_PSK_WITH_AES_128_CBC_SHA>>

ClientHelloBody(random, cookie) ==
    [random |-> random, sessionId |-> JsNull, cookie |-> cookie,
     cipherSuites |-> supportedCipherSuites, compressionMethods |-> <<0>>]

\* ClientHelloMessage.create throws for every cookie that is not null: the
\* range check names the undeclared variable 'version'.
ClientHelloCreateThrows(cookie) == cookie # JsNull

(***************************************************************************)
(* DtlsRecord.createFromPlaintext + toEncryptedBuffer: an outbound record  *)
(* with the write state and key it was encoded under.                      *)
(***************************************************************************)
toEncryptedBuffer(sid, type, epoch, sequenceNumber, fragment, writeState, key, macSecret) ==
    [sid |-> sid,
     protocolType |-> type,
     epoch |-> epoch,
     sequenceNumber |-> sequenceNumber,
     bulkEncryptionAlgorithm |-> writeState.bulkEncryptionAlgorithm,
     macAlgorithm |-> writeState.macAlgorithm,
     key |-> IF writeState.bulkEncryptionAlgorithm = "NULL" THEN NoSecret ELSE key,
     macSecret |-> IF writeState.bulkEncryptionAlgorithm = "NULL" THEN NoSecret ELSE macSecret,
     fragment |-> fragment]

\* toEncryptedBuffer works for the three members of BulkEncryptionAlgorithm;
\* for a null algorithm getBulkAlgorithmBlockSize returns null and
\* randomBytes(null) throws.
EncodeThrows(writeState) ==
    writeState.bulkEncryptionAlgorithm \notin {"NULL", "AES_128_CBC", "AES_256_CBC"}

(***************************************************************************)
(* DtlsRecord at the level of bytes.  A Buffer is a sequence of bytes.     *)
(* The sequence number is a 48-bit integer, kept as two 24-bit limbs       *)
(* <<high, low>>.  HMAC-SHA1 is a keyed checksum over every byte of its    *)
(* input and its position, expanded to 20 bytes.  AES-CBC is symbolic: a   *)
(* ciphertext names its key, its IV and its plaintext, and has the         *)
(* plaintext's length.  A record on the wire is the 13 header bytes, the   *)
(* IV and the ciphertext, with the number of bytes of the buffer that      *)
(* hold it.                                                                *)
(***************************************************************************)
Min(a, b) == IF a < b THEN a ELSE b
Max(a, b) == IF a < b THEN b ELSE a

\* The fragment lengths the record codec is exercised on: around the AES
\* block size, the one that needs no padding bytes, and the largest.
FragmentLengths == {0, 1, 11, 15, 16, 17, 16384}

DTLS_1_0 == 65279
HEADER_LENGTH == 13
MAX_PLAINTEXT_FRAGMENT_LENGTH == 16384
Limb == 16777216

\* Buffer.prototype.slice(start, end): a negative index counts from the end,
\* both are clamped to the buffer.
BufferSlice(buffer, start, end) ==
    LET n == Len(buffer)
        Index(x) == IF x < 0 THEN Max(0, n + x) ELSE Min(x, n)
    IN  IF Index(start) >= Index(end) THEN << >>
        ELSE SubSeq(buffer, Index(start) + 1, Index(end))

\* buffer.writeUIntBE(value, offset, byteLength) and writeUInt16BE
RECURSIVE writeUIntBE(_, _)
writeUIntBE(value, byteLength) ==
    IF byteLength = 0 THEN << >>
    ELSE Append(writeUIntBE(value \div 256, byteLength - 1), value % 256)

\* buffer.readUIntBE(offset, byteLength) and readUInt16BE
RECURSIVE readUIntBE(_)
readUIntBE(bytes) ==
    IF bytes = << >> THEN 0
    ELSE readUIntBE(SubSeq(bytes, 1, Len(bytes) - 1)) * 256 + bytes[Len(bytes)]

\* The sequence number written as a 32-bit value would be.
writeSequenceNumber_32Bit(sequenceNumber) ==
    <<0, 0>> \o writeUIntBE(sequenceNumber[1] % 256, 1) \o writeUIntBE(sequenceNumber[2], 3)

\* buffer.writeUIntBE(sequenceNumber, offset, 6): the six bytes of a sequence
\* number, as two limbs of three bytes.
writeSequenceNumber(sequenceNumber) ==
    writeUIntBE(sequenceNumber[1], 3) \o writeUIntBE(sequenceNumber[2], 3)

readSequenceNumber(bytes) ==
    <<readUIntBE(SubSeq(bytes, 1, 3)), readUIntBE(SubSeq(bytes, 4, 6))>>

\* crypto.createHmac('sha1', secret).update(data).digest()
RECURSIVE Checksum(_, _, _)
Checksum(data, from, to) ==
    IF from > to THEN 0
    ELSE IF from = to THEN ((from % 251) * (data[from] + 1)) % 65521
    ELSE LET mid == (from + to) \div 2
         IN  (Checksum(data, from, mid) + Checksum(data, mid + 1, to)) % 65521

HmacSha1(secret, data) ==
    LET sum == (Checksum(data, 1, Len(data)) + 7919 * secret + Len(data)) % 65521
    IN  [i \in 1..20 |-> (sum * (i + 2) + 13 * i + secret) % 256]

\* cipher.update(plaintext) + cipher.final() without auto padding: final
\* throws unless the input is whole blocks.
Cipheriv(key, iv, plaintext) == [key |-> key, iv |-> iv, plain |-> plaintext]

CiphertextLength(ciphertext) == Len(ciphertext.plain)

\* Another key or IV turns the first block, at least, into bytes that no
\* padding or MAC check accepts.
Decipheriv(key, iv, ciphertext) ==
    IF ciphertext.key = key /\ ciphertext.iv = iv THEN ciphertext.plain
    ELSE [i \in 1..Len(ciphertext.plain) |-> 255]

getBulkAlgorithmBlockSize(bulkEncryptionAlgorithm) ==
    CASE bulkEncryptionAlgorithm \in {"AES_128_CBC", "AES_256_CBC"} -> 16
      [] bulkEncryptionAlgorithm = "NULL" -> 1
      [] OTHER -> -1   \* the source returns null

isProtocolTypeValid(type) == type \in {20, 21, 22, 23}

isDtlsVersionValid(dtlsVersion) == dtlsVersion = DTLS_1_0

\* DtlsRecord.createFromPlaintext
createFromPlaintext(type, dtlsVersion, epoch, sequenceNumber, fragment) ==
    IF ~isProtocolTypeValid(type) \/ ~isDtlsVersionValid(dtlsVersion)
       \/ epoch < 0 \/ epoch > 65535
       \/ sequenceNumber[1] < 0 \/ sequenceNumber[1] >= Limb
       \/ sequenceNumber[2] < 0 \/ sequenceNumber[2] >= Limb
       \/ Len(fragment) > MAX_PLAINTEXT_FRAGMENT_LENGTH
    THEN [outcome |-> "throws", error |-> "RangeError"]
    ELSE [outcome |-> "record",
          record |-> [protocolType |-> type, dtlsVersion |-> dtlsVersion,
                      epoch |-> epoch, sequenceNumber |-> sequenceNumber,
                      fragment |-> fragment]]

buildBufferForMacCalculation(epoch, sequenceNumber, protocolType, dtlsVersion, fragment) ==
    writeUIntBE(epoch, 2) \o writeSequenceNumber(sequenceNumber) \o <<protocolType>>
    \o writeUIntBE(dtlsVersion, 2) \o writeUIntBE(Len(fragment), 2) \o fragment

\* buildBufferForEncryption with a whole block of padding where the fragment,
\* the MAC and the length byte already fill their blocks.
buildBufferForEncryption_FullBlock(fragment, macHash, paddingBlockSize) ==
    LET nonPaddedLength == Len(fragment) + Len(macHash) + 1
        paddingLength == paddingBlockSize - (nonPaddedLength % paddingBlockSize)
    IN  fragment \o macHash \o [i \in 1..paddingLength |-> paddingLength]
        \o <<paddingLength>>

buildBufferForEncryption(fragment, macHash, paddingBlockSize) ==
    LET nonPaddedLength == Len(fragment) + Len(macHash) + 1
        numBlocks == (nonPaddedLength + paddingBlockSize - 1) \div paddingBlockSize
        paddedLength == numBlocks * paddingBlockSize
        paddingLength == paddedLength - nonPaddedLength
    IN  fragment \o macHash \o [i \in 1..paddingLength |-> paddingLength]
        \o <<paddingLength>>

\* DtlsRecord.prototype.toEncryptedBuffer, with the IV that randomBytes
\* returned.  The MAC is HMAC-SHA1 whatever macAlgorithm says.
toEncryptedBufferBytes(record, bulkEncryptionAlgorithm, blockEncryptionKey, macAlgorithm, macSecret, randomIV) ==
    LET isNull == bulkEncryptionAlgorithm = "NULL"
        blockSize == getBulkAlgorithmBlockSize(bulkEncryptionAlgorithm)
        macHash == HmacSha1(macSecret,
                       buildBufferForMacCalculation(record.epoch, record.sequenceNumber,
                           record.protocolType, record.dtlsVersion, record.fragment))
        bufferForEncryption == buildBufferForEncryption(record.fragment, macHash, blockSize)
        ciphertext == IF isNull THEN Cipheriv(0, 0, record.fragment)
                      ELSE Cipheriv(blockEncryptionKey, randomIV, bufferForEncryption)
        randomIVLength == IF isNull THEN 0 ELSE blockSize
        length == CiphertextLength(ciphertext) + randomIVLength
    IN  IF ~isNull /\ blockSize < 0
        THEN [outcome |-> "throws", error |-> "TypeError"]
        ELSE IF length > 65535
        THEN [outcome |-> "throws", error |-> "RangeError"]
        ELSE [outcome |-> "buffer",
              buffer |-> [header |-> <<record.protocolType>>
                                     \o writeUIntBE(record.dtlsVersion, 2)
                                     \o writeUIntBE(record.epoch, 2)
                                     \o writeSequenceNumber(record.sequenceNumber)
                                     \o writeUIntBE(length, 2),
                          iv |-> IF isNull THEN 0 ELSE randomIV,
                          ivLength |-> randomIVLength,
                          ciphertext |-> ciphertext,
                          length |-> HEADER_LENGTH + length]]

\* The padding and MAC verification of fromEncryptedBuffer with the padding
\* checked first and the MAC left alone once the padding is wrong.
VerifyPaddingAndMac_PaddingFirst(compressedtext, epoch, sequenceNumber, protocolType, dtlsVersion, macAlgorithm, macSecret) ==
    LET n == Len(compressedtext)
        paddingLength == compressedtext[n]
        paddingError ==
            \/ paddingLength + 1 > n
            \/ \E i \in (n - paddingLength)..n : compressedtext[i] # paddingLength
        macHashLength == getMacAlgorithmHashSize(macAlgorithm)
        withoutMacOrPadding ==
            BufferSlice(compressedtext, 0, n - paddingLength - 1 - macHashLength)
        macHash == BufferSlice(compressedtext, n - paddingLength - 1 - macHashLength,
                               n - paddingLength - 1)
        macHashVerify == HmacSha1(macSecret,
                             buildBufferForMacCalculation(epoch, sequenceNumber,
                                 protocolType, dtlsVersion, withoutMacOrPadding))
    IN  IF paddingError
        THEN [fragment |-> withoutMacOrPadding, paddingError |-> TRUE,
              macHashError |-> FALSE, macBytesCompared |-> 0]
        ELSE [fragment |-> withoutMacOrPadding, paddingError |-> FALSE,
              macHashError |-> \E i \in 1..macHashLength :
                                  i > Len(macHash) \/ macHashVerify[i] # macHash[i],
              macBytesCompared |-> macHashLength]

\* The padding and MAC verification of fromEncryptedBuffer (lines 200-245):
\* the padding length byte and the padding bytes, then the MAC over the
\* slice the padding length leaves, compared on all of its bytes whatever
\* the padding check said.
VerifyPaddingAndMac(compressedtext, epoch, sequenceNumber, protocolType, dtlsVersion, macAlgorithm, macSecret) ==
    LET n == Len(compressedtext)
        paddingLength == compressedtext[n]
        paddingError ==
            \/ paddingLength + 1 > n
            \/ \E i \in (n - paddingLength)..n : compressedtext[i] # paddingLength
        macHashLength == getMacAlgorithmHashSize(macAlgorithm)
        withoutMacOrPadding ==
            BufferSlice(compressedtext, 0, n - paddingLength - 1 - macHashLength)
        macHash == BufferSlice(compressedtext, n - paddingLength - 1 - macHashLength,
                               n - paddingLength - 1)
        macHashVerify == HmacSha1(macSecret,
                             buildBufferForMacCalculation(epoch, sequenceNumber,
                                 protocolType, dtlsVersion, withoutMacOrPadding))
    IN  [fragment |-> withoutMacOrPadding,
         paddingError |-> paddingError,
         macHashError |-> \E i \in 1..macHashLength :
                             i > Len(macHash) \/ macHashVerify[i] # macHash[i],
         macBytesCompared |-> macHashLength]

NoVerification ==
    [fragment |-> << >>, paddingError |-> FALSE, macHashError |-> FALSE,
     macBytesCompared |-> 0]

\* exports.fromEncryptedBuffer on a buffer holding one record at offset 0:
\* what it returns (null, an exception, or the record and the bytes
\* consumed) and what its verification found.
DecodeRecord(buffer, bulkEncryptionAlgorithm, blockEncryptionKey, macAlgorithm, macSecret) ==
    LET Null == [result |-> [outcome |-> "null"], verification |-> NoVerification]
        Throws(error) == [result |-> [outcome |-> "throws", error |-> error],
                          verification |-> NoVerification]
        isNull == bulkEncryptionAlgorithm = "NULL"
        randomIVLength == IF isNull THEN 0
                          ELSE getBulkAlgorithmBlockSize(bulkEncryptionAlgorithm)
        protocolType == buffer.header[1]
        dtlsVersion == readUIntBE(SubSeq(buffer.header, 2, 3))
        epoch == readUIntBE(SubSeq(buffer.header, 4, 5))
        sequenceNumber == readSequenceNumber(SubSeq(buffer.header, 6, 11))
        ciphertextLength == readUIntBE(SubSeq(buffer.header, 12, 13))
        taken == ciphertextLength - randomIVLength
        key == IF isNull THEN 0 ELSE blockEncryptionKey
        iv == IF buffer.ivLength = randomIVLength THEN buffer.iv ELSE -1
        decrypted == Decipheriv(key, iv, buffer.ciphertext)
        compressedtext == SubSeq(decrypted, 1, Min(taken, Len(decrypted)))
        verification == VerifyPaddingAndMac(compressedtext, epoch, sequenceNumber,
                            protocolType, dtlsVersion, macAlgorithm, macSecret)
        Record(fragment) ==
            [outcome |-> "record",
             record |-> [protocolType |-> protocolType, dtlsVersion |-> dtlsVersion,
                         epoch |-> epoch, sequenceNumber |-> sequenceNumber,
                         fragment |-> fragment],
             bytesConsumed |-> HEADER_LENGTH + ciphertextLength]
    IN  IF buffer.length = 0 THEN Throws("RangeError")
        ELSE IF buffer.length < HEADER_LENGTH THEN Null
        ELSE IF buffer.length - HEADER_LENGTH < ciphertextLength THEN Null
        ELSE IF ~(randomIVLength < ciphertextLength) THEN Null
        ELSE IF isNull
        THEN [result |-> Record(compressedtext), verification |-> NoVerification]
        ELSE IF taken % 16 # 0 THEN Throws("Error")
        ELSE [result |-> IF verification.macHashError \/ verification.paddingError
                         THEN [outcome |-> "null"]
                         ELSE Record(verification.fragment),
              verification |-> verification]

fromEncryptedBufferBytes(buffer, bulkEncryptionAlgorithm, blockEncryptionKey, macAlgorithm, macSecret) ==
    DecodeRecord(buffer, bulkEncryptionAlgorithm, blockEncryptionKey,
                 macAlgorithm, macSecret).result

(***************************************************************************)
(* The handshake message codecs and helpers/SerializationHelper.js.  An    *)
(* argument or a field is a JS value: its type, its bytes if it has any,   *)
(* its number if it is one.                                                *)
(***************************************************************************)
JsValue(type, bytes, number) == [type |-> type, bytes |-> bytes, number |-> number]
JsUndefined == JsValue("undefined", << >>, 0)
JsNullValue == JsValue("null", << >>, 0)
JsBuffer(bytes) == JsValue("Buffer", bytes, 0)
JsUint8Array(bytes) == JsValue("Uint8Array", bytes, 0)
JsString(bytes) == JsValue("string", bytes, 0)
JsNumber(number) == JsValue("number", << >>, number)

\* Buffer.isBuffer(value)
IsBuffer(value) == value.type = "Buffer"

\* Object.prototype.toString.call(value) == "[object Uint8Array]": true of a
\* Buffer, which is a Uint8Array, and of a plain Uint8Array.
IsUint8Array(value) == value.type \in {"Buffer", "Uint8Array"}

Throws(error) == [outcome |-> "throws", error |-> error]
ReturnsNull == [outcome |-> "null"]
ReturnsMessage(message) == [outcome |-> "message", message |-> message]
ReturnsBuffer(bytes) == [outcome |-> "buffer", buffer |-> bytes]
Parsed(message, bytesConsumed) ==
    [outcome |-> "parsed", message |-> message, bytesConsumed |-> bytesConsumed]

\* enums.isDtlsVersionValid on a JS value
IsDtlsVersionValidValue(version) ==
    version.type = "number" /\ isDtlsVersionValid(version.number)

\* The validation with an offset at the end of the buffer refused, as the
\* parsers that do not use the helper refuse it.
ValidateDeserializationArguments_OffsetBeforeEnd(buffer, offset, minimumLength) ==
    LET start == IF offset.type = "undefined" THEN 0 ELSE offset.number
    IN  IF buffer.type = "undefined" THEN "TypeError"
        ELSE IF ~IsBuffer(buffer) THEN "TypeError"
        ELSE IF minimumLength.type # "number" THEN "TypeError"
        ELSE IF minimumLength.number < 0 THEN "RangeError"
        ELSE IF offset.type \notin {"undefined", "number"} THEN "TypeError"
        ELSE IF offset.type = "number"
                /\ (offset.number < 0 \/ offset.number >= Len(buffer.bytes))
        THEN "RangeError"
        ELSE IF Len(buffer.bytes) - start < minimumLength.number THEN "false"
        ELSE "true"

\* SerializationHelper.ValidateDeserializationArguments(buffer, offset,
\* minimumLength): "true", "false", or the error thrown.
ValidateDeserializationArguments(buffer, offset, minimumLength) ==
    LET start == IF offset.type = "undefined" THEN 0 ELSE offset.number
    IN  IF buffer.type = "undefined" THEN "TypeError"
        ELSE IF ~IsBuffer(buffer) THEN "TypeError"
        ELSE IF minimumLength.type # "number" THEN "TypeError"
        ELSE IF minimumLength.number < 0 THEN "RangeError"
        ELSE IF offset.type \notin {"undefined", "number"} THEN "TypeError"
        ELSE IF offset.type = "number"
                /\ (offset.number < 0 \/ offset.number > Len(buffer.bytes))
        THEN "RangeError"
        ELSE IF Len(buffer.bytes) - start < minimumLength.number THEN "false"
        ELSE "true"

\* The standard fromBuffer header: the outcome that ends the parse, or
\* "true" with the parse going on at InitialOffset.
InitialOffset(offset) == IF offset.type = "undefined" THEN 0 ELSE offset.number

\* messages/handshake/FinishedMessage.js
VERIFY_DATA_LENGTH == 12

FinishedCreate(verifyData) ==
    IF ~IsUint8Array(verifyData) THEN Throws("TypeError")
    ELSE IF Len(verifyData.bytes) # VERIFY_DATA_LENGTH THEN Throws("RangeError")
    ELSE ReturnsMessage([verifyData |-> verifyData])

\* new Buffer(value): a copy of a buffer or an array, the bytes of a string,
\* as many zero bytes as a number says; anything else is a TypeError.
NewBuffer(value) ==
    CASE value.type \in {"Buffer", "Uint8Array", "string"} -> ReturnsBuffer(value.bytes)
      [] value.type = "number" /\ value.number >= 0 ->
            ReturnsBuffer([i \in 1..value.number |-> 0])
      [] value.type = "number" /\ value.number < 0 -> Throws("RangeError")
      [] OTHER -> Throws("TypeError")

\* source.copy(target, 0, 0, length) into a zero-filled target: as many
\* bytes as both hold.
CopyInto(targetLength, source) ==
    [i \in 1..targetLength |-> IF i <= Len(source) THEN source[i] ELSE 0]

\* FinishedMessage.prototype.toBuffer: the fields are not validated.
FinishedToBuffer(message) ==
    LET verifyDataAsBuffer == NewBuffer(message.verifyData)
    IN  IF verifyDataAsBuffer.outcome = "throws" THEN verifyDataAsBuffer
        ELSE ReturnsBuffer(CopyInto(VERIFY_DATA_LENGTH, verifyDataAsBuffer.buffer))

\* FinishedMessage.fromBuffer: offset is looked at first, against
\* buffer.length, which throws a TypeError when there is no buffer.
FinishedFromBuffer(buffer, offset) ==
    LET initialOffset == InitialOffset(offset)
    IN  IF offset.type \notin {"undefined", "number"} THEN Throws("TypeError")
        ELSE IF offset.type = "number" /\ buffer.type \in {"undefined", "null"}
        THEN Throws("TypeError")
        ELSE IF offset.type = "number" /\ buffer.type # "number"
                /\ offset.number >= Len(buffer.bytes)
        THEN Throws("RangeError")
        ELSE IF ~IsUint8Array(buffer) THEN Throws("TypeError")
        ELSE IF Len(buffer.bytes) - initialOffset < VERIFY_DATA_LENGTH THEN ReturnsNull
        ELSE Parsed([verifyData |->
                        JsBuffer(SubSeq(buffer.bytes, initialOffset + 1,
                                        initialOffset + VERIFY_DATA_LENGTH))],
                    VERIFY_DATA_LENGTH)

\* messages/handshake/HelloVerifyRequestMessage.js
MAX_DTLS_10_COOKIE_LENGTH == 32

\* enums.getMaximumCookieLength, of a valid version
getMaximumCookieLength(version) == MAX_DTLS_10_COOKIE_LENGTH

\* The validation create and toBuffer share: "ok" or the error thrown.
HelloVerifyRequestCheck(serverVersion, cookie) ==
    IF ~IsDtlsVersionValidValue(serverVersion) THEN "RangeError"
    ELSE IF cookie.type = "null" THEN "ok"
    ELSE IF ~IsBuffer(cookie) THEN "TypeError"
    ELSE IF Len(cookie.bytes) = 0 THEN "RangeError"
    ELSE IF Len(cookie.bytes) > getMaximumCookieLength(serverVersion.number)
    THEN "RangeError"
    ELSE "ok"

HelloVerifyRequestCreate(serverVersion, cookie) ==
    LET given == IF cookie.type = "undefined" THEN JsNullValue ELSE cookie
        check == HelloVerifyRequestCheck(serverVersion, given)
    IN  IF check # "ok" THEN Throws(check)
        ELSE ReturnsMessage([serverVersion |-> serverVersion, cookie |-> given])

HelloVerifyRequestToBuffer(message) ==
    LET check == HelloVerifyRequestCheck(message.serverVersion, message.cookie)
    IN  IF check # "ok" THEN Throws(check)
        ELSE IF message.cookie.type = "null"
        THEN ReturnsBuffer(writeUIntBE(message.serverVersion.number, 2) \o <<0>>)
        ELSE ReturnsBuffer(writeUIntBE(message.serverVersion.number, 2)
                           \o <<Len(message.cookie.bytes)>> \o message.cookie.bytes)

\* The parser with a cookie length of zero read as an empty cookie.
HelloVerifyRequestFromBuffer_EmptyCookie(buffer, offset) ==
    LET valid == ValidateDeserializationArguments(buffer, offset, JsNumber(3))
        initialOffset == InitialOffset(offset)
        bytes == buffer.bytes
        cookieLength == bytes[initialOffset + 3]
    IN  IF valid = "false" THEN ReturnsNull
        ELSE IF valid # "true" THEN Throws(valid)
        ELSE IF Len(bytes) - (initialOffset + 3) < cookieLength THEN ReturnsNull
        ELSE Parsed([serverVersion |->
                        JsNumber(readUIntBE(SubSeq(bytes, initialOffset + 1,
                                                   initialOffset + 2))),
                     cookie |-> JsBuffer(SubSeq(bytes, initialOffset + 4,
                                                initialOffset + 3 + cookieLength))],
                    3 + cookieLength)

\* exports.fromBuffer: a cookie length of zero is a null cookie.
HelloVerifyRequestFromBuffer(buffer, offset) ==
    LET valid == ValidateDeserializationArguments(buffer, offset, JsNumber(3))
        initialOffset == InitialOffset(offset)
        bytes == buffer.bytes
        cookieLength == bytes[initialOffset + 3]
    IN  IF valid = "false" THEN ReturnsNull
        ELSE IF valid # "true" THEN Throws(valid)
        ELSE IF Len(bytes) - (initialOffset + 3) < cookieLength THEN ReturnsNull
        ELSE Parsed([serverVersion |->
                        JsNumber(readUIntBE(SubSeq(bytes, initialOffset + 1,
                                                   initialOffset + 2))),
                     cookie |-> IF cookieLength = 0 THEN JsNullValue
                                ELSE JsBuffer(SubSeq(bytes, initialOffset + 4,
                                                     initialOffset + 3 + cookieLength))],
                    3 + cookieLength)

\* messages/handshake/PskClientKeyExchangeMessage.js
MAX_IDENTITY_LENGTH == 65535

PskClientKeyExchangeCheck(identity) ==
    IF ~IsBuffer(identity) THEN "TypeError"
    ELSE IF Len(identity.bytes) > MAX_IDENTITY_LENGTH THEN "RangeError"
    ELSE "ok"

PskClientKeyExchangeCreate(identity) ==
    LET check == PskClientKeyExchangeCheck(identity)
    IN  IF check # "ok" THEN Throws(check)
        ELSE ReturnsMessage([identity |-> identity])

PskClientKeyExchangeToBuffer(message) ==
    LET check == PskClientKeyExchangeCheck(message.identity)
    IN  IF check # "ok" THEN Throws(check)
        ELSE ReturnsBuffer(writeUIntBE(Len(message.identity.bytes), 2)
                           \o message.identity.bytes)

PskClientKeyExchangeFromBuffer(buffer, offset) ==
    LET valid == ValidateDeserializationArguments(buffer, offset, JsNumber(2))
        initialOffset == InitialOffset(offset)
        bytes == buffer.bytes
        identityLength == readUIntBE(SubSeq(bytes, initialOffset + 1, initialOffset + 2))
    IN  IF valid = "false" THEN ReturnsNull
        ELSE IF valid # "true" THEN Throws(valid)
        ELSE IF Len(bytes) - (initialOffset + 2) < identityLength THEN ReturnsNull
        ELSE Parsed([identity |-> JsBuffer(SubSeq(bytes, initialOffset + 3,
                                                  initialOffset + 2 + identityLength))],
                    2 + identityLength)

\* ServerHelloDoneMessage: no fields, no bytes.
ServerHelloDoneMessage == [empty |-> TRUE]

ServerHelloDoneCreate == ReturnsMessage(ServerHelloDoneMessage)

ServerHelloDoneToBuffer(message) == ReturnsBuffer(<< >>)

ServerHelloDoneFromBuffer(buffer, offset) ==
    LET valid == ValidateDeserializationArguments(buffer, offset, JsNumber(0))
    IN  IF valid = "false" THEN ReturnsNull
        ELSE IF valid # "true" THEN Throws(valid)
        ELSE Parsed(ServerHelloDoneMessage, 0)

(***************************************************************************)
(* State.                                                                  *)
(*   sessions      every DtlsSession object created so far (the heap);    *)
(*                 a session's index is its identity                       *)
(*   dtlsSessions  DtlsSocket.dtlsSessions: the indices of the sessions in *)
(*                 the endpoint's list, in list order                      *)
(*   sent          the records handed to socket.send, in order             *)
(*   socketOpen    the shared dgram socket has not been closed             *)
(*   crashed       an exception left a handler                             *)
(*   connectLog    the sessions whose connect listener ran, in order       *)
(*   disconnectLog the sessions whose disconnect listener ran, in order    *)
(*   delivered     the calls of messageListener: session and data          *)
(*   sendCount     calls of DtlsSocket.send so far; the k-th call's        *)
(*                 payload is k                                            *)
(*   last          the operation that produced this state and its input:   *)
(*                 for a send the session found (0: none), the destination *)
(*                 and the key, for a datagram the session it was routed   *)
(*                 to (0: none), its records and its source                *)
(*   pending       the dns.resolve calls of send whose callback has not    *)
(*                 run yet                                                 *)
(*   socketType    the family the endpoint was constructed with            *)
(*   peer          the server: its place in the handshake script, the      *)
(*                 cookie of its HelloVerifyRequest ("none": it sent no    *)
(*                 HelloVerifyRequest), the payloads it has sent, and the  *)
(*                 off-script datagrams that have reached the socket       *)
(*   codec         the codec functions under test: the input drawn, how    *)
(*                 far it has been taken, and what the functions returned  *)
(***************************************************************************)
VARIABLES sessions, dtlsSessions, sent, socketOpen, crashed,
          connectLog, disconnectLog, delivered, sendCount, last, peer,
          pending, socketType, codec

vars == <<sessions, dtlsSessions, sent, socketOpen, crashed,
          connectLog, disconnectLog, delivered, sendCount, last, peer,
          pending, socketType, codec>>

endpointVars == <<sessions, dtlsSessions, sent, socketOpen, crashed,
                  connectLog, disconnectLog, delivered, sendCount, last, peer,
                  pending, socketType>>

\* The part of the state the handlers read and write, as one value; returned
\* is set by a 'return' inside DtlsSession.onSocketMessage.
World ==
    [sessions |-> sessions, dtlsSessions |-> dtlsSessions, sent |-> sent,
     socketOpen |-> socketOpen, crashed |-> crashed, connectLog |-> connectLog,
     disconnectLog |-> disconnectLog, delivered |-> delivered, returned |-> FALSE]

Throw(w) == [w EXCEPT !.crashed = TRUE]

Return(w) == [w EXCEPT !.returned = TRUE]

\* this.socket.send(...): throws when the socket has been closed.
SocketSend(w, record) ==
    IF w.socketOpen THEN [w EXCEPT !.sent = Append(@, record)] ELSE Throw(w)

\* createFromPlaintext(...).toEncryptedBuffer(currentWriteState..., clientWriteKey, clientWriteMacSecret)
\* at (nextOutgoingEpoch, nextOutgoingSequenceNumber) of session s.
OutgoingRecord(sid, s, type, fragment) ==
    toEncryptedBuffer(sid, type, s.nextOutgoingEpoch, s.nextOutgoingSequenceNumber,
                      fragment, s.currentWriteState,
                      s.securityParameters.clientWriteKey,
                      s.securityParameters.clientWriteMacSecret)

incrementNextOutgoingSequenceNumber(s) ==
    [s EXCEPT !.nextOutgoingSequenceNumber = @ + 1]

\* incrementNextOutgoingEpoch without the restart of the sequence number.
incrementNextOutgoingEpoch_KeepSequence(s) ==
    [s EXCEPT !.nextOutgoingEpoch = @ + 1]

incrementNextOutgoingEpoch(s) ==
    [s EXCEPT !.nextOutgoingEpoch = @ + 1, !.nextOutgoingSequenceNumber = 0]

generateClientRandom == "clientRandom"

(***************************************************************************)
(* The tail shared by connect and the HelloVerifyRequest handler: build    *)
(* ClientHello with the cookie, number it, append it to the transcript,    *)
(* put it in a record, count the record, set ClientHelloSent, send.        *)
(***************************************************************************)
SendClientHello(w, sid, s0, cookie) ==
    IF ClientHelloCreateThrows(cookie) THEN Throw([w EXCEPT !.sessions[sid] = s0])
    ELSE
    LET handshakeMessage ==
            createFromMessageBuffer("ClientHello", s0.handshakeMessageSequence, 0,
                ClientHelloBody(s0.securityParameters.clientRandom, cookie))
        s1 == [s0 EXCEPT !.handshakeMessageSequence = @ + 1,
                         !.allHandshakeMessagesAsBuffer = Append(@, handshakeMessage)]
        dtlsRecord == OutgoingRecord(sid, s1, DtlsHandshakeProtocol, handshakeMessage)
        s2 == [incrementNextOutgoingSequenceNumber(s1) EXCEPT !.sessionState = ClientHelloSent]
    IN  IF EncodeThrows(s1.currentWriteState)
        THEN Throw([w EXCEPT !.sessions[sid] = s1])
        ELSE SocketSend([w EXCEPT !.sessions[sid] = s2], dtlsRecord)

\* DtlsSession.prototype.connect; msg is what the connect listener will send.
connect(w, sid, port, ipAddress, pskIdentity, pskPassword, msg) ==
    LET s0 == [w.sessions[sid] EXCEPT
                  !.dstIpAddress = ipAddress,
                  !.dstPort = port,
                  !.connectMsg = msg,
                  !.pskIdentity = pskIdentity,
                  !.pskPassword = pskPassword,
                  !.allHandshakeMessagesAsBuffer = << >>,
                  !.handshakeMessageSequence = 0,
                  !.securityParameters.clientRandom = generateClientRandom]
    IN  SendClientHello(w, sid, s0, JsNull)

\* sendApplicationData without the count of the record it sends.
sendApplicationData_NotCounted(w, sid, data) ==
    LET s == w.sessions[sid]
    IN  IF s.sessionState # Connected
        THEN [w EXCEPT !.sessions[sid].messageQueue = Append(@, data)]
        ELSE IF EncodeThrows(s.currentWriteState) THEN Throw(w)
        ELSE SocketSend(w, OutgoingRecord(sid, s, DtlsApplicationDataProtocol,
                                          [kind |-> "ApplicationData", data |-> data]))

\* DtlsSession.prototype.sendApplicationData
sendApplicationData(w, sid, data) ==
    LET s == w.sessions[sid]
    IN  IF s.sessionState # Connected
        THEN [w EXCEPT !.sessions[sid].messageQueue = Append(@, data)]
        ELSE IF EncodeThrows(s.currentWriteState) THEN Throw(w)
        ELSE LET dtlsRecord == OutgoingRecord(sid, s, DtlsApplicationDataProtocol,
                                   [kind |-> "ApplicationData", data |-> data])
             IN  SocketSend([w EXCEPT !.sessions[sid] =
                                incrementNextOutgoingSequenceNumber(s)], dtlsRecord)

\* while (messageQueue.length > 0) { data = messageQueue.pop(); sendApplicationData(data) }
RECURSIVE DrainMessageQueue(_, _)
DrainMessageQueue(w, sid) ==
    LET q == w.sessions[sid].messageQueue
    IN  IF w.crashed \/ Len(q) = 0 THEN w
        ELSE DrainMessageQueue(
                 sendApplicationData(
                     [w EXCEPT !.sessions[sid].messageQueue = SubSeq(q, 1, Len(q) - 1)],
                     sid, q[Len(q)]),
                 sid)

(***************************************************************************)
(* DtlsSession.prototype.onSocketMessage, one case of the switch per       *)
(* operator.  hm is the parsed DtlsHandshakeMessage; what is appended to   *)
(* the transcript is hm as the peer sent it.                               *)
(***************************************************************************)

\* The HelloVerifyRequest case without the reset of the transcript.
HandleHelloVerifyRequest_KeepTranscript(w, sid, hm) ==
    LET s0 == [w.sessions[sid] EXCEPT !.handshakeMessageSequence = 0]
    IN  SendClientHello(w, sid, s0, hm.message.cookie)

\* case enums.MessageType.HelloVerifyRequest
HandleHelloVerifyRequest(w, sid, hm) ==
    LET s0 == [w.sessions[sid] EXCEPT !.allHandshakeMessagesAsBuffer = << >>,
                                      !.handshakeMessageSequence = 0]
    IN  SendClientHello(w, sid, s0, hm.message.cookie)

\* case enums.MessageType.ServerHello
HandleServerHello(w, sid, hm) ==
    LET s0 == [w.sessions[sid] EXCEPT
                  !.allHandshakeMessagesAsBuffer = Append(@, hm),
                  !.securityParameters.serverRandom = hm.message.random]
        suiteKnown == hm.message.cipherSuite \in
                          {TLS_PSK_WITH_AES_128_CBC_SHA, TLS_PSK_WITH_AES_256_CBC_SHA}
        s1 == [s0 EXCEPT
                  !.securityParameters.bulkEncryptionAlgorithm =
                      IF hm.message.cipherSuite = TLS_PSK_WITH_AES_128_CBC_SHA
                      THEN "AES_128_CBC" ELSE "AES_256_CBC",
                  !.securityParameters.macAlgorithm = "SHA1"]
        s2 == [s1 EXCEPT !.securityParameters.compressionMethod = "NULL"]
    IN  IF ~suiteKnown THEN Return([w EXCEPT !.sessions[sid] = s0])
        ELSE IF hm.message.compressionMethod # 0 THEN Return([w EXCEPT !.sessions[sid] = s1])
        ELSE [w EXCEPT !.sessions[sid] = s2]

\* The key block cut with the two keys ahead of the two MAC secrets.
DeriveKeys_KeysFirst(sp) ==
    LET macLength == getMacAlgorithmHashSize(sp.macAlgorithm)
        keyLength == getBulkAlgorithmKeySize(sp.bulkEncryptionAlgorithm)
        keyBlockAsBuffer == PRF(sp.masterSecret, "key expansion",
                                <<sp.serverRandom, sp.clientRandom>>,
                                macLength + macLength + keyLength + keyLength)
    IN  [sp EXCEPT
            !.clientWriteKey = KeyBlockSlice(keyBlockAsBuffer, 0, keyLength),
            !.serverWriteKey = KeyBlockSlice(keyBlockAsBuffer, keyLength, keyLength),
            !.clientWriteMacSecret = KeyBlockSlice(keyBlockAsBuffer, keyLength + keyLength, macLength),
            !.serverWriteMacSecret = KeyBlockSlice(keyBlockAsBuffer, keyLength + keyLength + macLength, macLength)]

\* The key block cut into client MAC, server MAC, client key, server key.
DeriveKeys(sp) ==
    LET macLength == getMacAlgorithmHashSize(sp.macAlgorithm)
        keyLength == getBulkAlgorithmKeySize(sp.bulkEncryptionAlgorithm)
        keyBlockAsBuffer == PRF(sp.masterSecret, "key expansion",
                                <<sp.serverRandom, sp.clientRandom>>,
                                macLength + macLength + keyLength + keyLength)
    IN  [sp EXCEPT
            !.clientWriteMacSecret = KeyBlockSlice(keyBlockAsBuffer, 0, macLength),
            !.serverWriteMacSecret = KeyBlockSlice(keyBlockAsBuffer, macLength, macLength),
            !.clientWriteKey = KeyBlockSlice(keyBlockAsBuffer, macLength + macLength, keyLength),
            !.serverWriteKey = KeyBlockSlice(keyBlockAsBuffer, macLength + macLength + keyLength, keyLength)]

\* case enums.MessageType.ServerHelloDone, first part: ClientKeyExchange.
SendClientKeyExchange(w, sid, hm) ==
    LET s0 == [w.sessions[sid] EXCEPT !.allHandshakeMessagesAsBuffer = Append(@, hm)]
        handshakeMessage ==
            createFromMessageBuffer("ClientKeyExchange", s0.handshakeMessageSequence, 0,
                                    [pskIdentity |-> s0.pskIdentity.bytes])
        s1 == [s0 EXCEPT !.handshakeMessageSequence = @ + 1,
                         !.allHandshakeMessagesAsBuffer = Append(@, handshakeMessage)]
        dtlsRecord == OutgoingRecord(sid, s1, DtlsHandshakeProtocol, handshakeMessage)
    IN  IF EncodeThrows(s1.currentWriteState)
        THEN Throw([w EXCEPT !.sessions[sid] = s1])
        ELSE SocketSend([w EXCEPT !.sessions[sid] =
                            incrementNextOutgoingSequenceNumber(s1)], dtlsRecord)

\* second part: master secret and key block.  Buffer.concat throws on a null
\* serverRandom; Buffer.alloc throws on the null length of a null algorithm.
CalculateSecurityParameters(w, sid) ==
    LET s == w.sessions[sid]
        sp == s.securityParameters
        premasterSecret == createPremasterSecret_FromPresharedKey(s.pskPassword)
        sp1 == [sp EXCEPT !.masterSecret =
                   PRF(premasterSecret, "master secret",
                       <<sp.clientRandom, sp.serverRandom>>, 48)]
    IN  IF sp.serverRandom = JsNull THEN Throw(w)
        ELSE IF getMacAlgorithmHashSize(sp1.macAlgorithm) < 0
        THEN Throw([w EXCEPT !.sessions[sid].securityParameters = sp1])
        ELSE [w EXCEPT !.sessions[sid].securityParameters = DeriveKeys(sp1)]

\* SendChangeCipherSpec with the write state replaced before the record is
\* encoded instead of after it is sent.
SendChangeCipherSpec_StateFirst(w, sid) ==
    LET s0 == w.sessions[sid]
        s == [s0 EXCEPT !.currentWriteState =
                 DtlsConnectionState(s0.securityParameters.bulkEncryptionAlgorithm,
                                     s0.securityParameters.compressionMethod,
                                     s0.securityParameters.macAlgorithm)]
        dtlsRecord == OutgoingRecord(sid, s, DtlsChangeCipherSpecProtocol,
                                     [kind |-> "ChangeCipherSpec", type |-> 1])
    IN  IF EncodeThrows(s.currentWriteState) THEN Throw(w)
        ELSE SocketSend([w EXCEPT !.sessions[sid] = incrementNextOutgoingEpoch(s)],
                        dtlsRecord)

\* third part: ChangeCipherSpec under the write state still in force, then
\* the epoch, then the new write state.
SendChangeCipherSpec(w, sid) ==
    LET s == w.sessions[sid]
        dtlsRecord == OutgoingRecord(sid, s, DtlsChangeCipherSpecProtocol,
                                     [kind |-> "ChangeCipherSpec", type |-> 1])
        s1 == incrementNextOutgoingEpoch(s)
        w1 == SocketSend([w EXCEPT !.sessions[sid] = s1], dtlsRecord)
    IN  IF EncodeThrows(s.currentWriteState) THEN Throw(w)
        ELSE IF w1.crashed THEN w1
        ELSE [w1 EXCEPT !.sessions[sid].currentWriteState =
                 DtlsConnectionState(s.securityParameters.bulkEncryptionAlgorithm,
                                     s.securityParameters.compressionMethod,
                                     s.securityParameters.macAlgorithm)]

\* SendFinished without the append of the client's Finished to the transcript.
SendFinished_NotTranscribed(w, sid) ==
    LET s == w.sessions[sid]
        clientVerifyData == PRF(s.securityParameters.masterSecret, "client finished",
                                TranscriptHash(s.allHandshakeMessagesAsBuffer), 12)
        handshakeMessage ==
            createFromMessageBuffer("Finished", s.handshakeMessageSequence, 0,
                                    [verifyData |-> clientVerifyData])
        s1 == [s EXCEPT !.handshakeMessageSequence = @ + 1]
        dtlsRecord == OutgoingRecord(sid, s1, DtlsHandshakeProtocol, handshakeMessage)
        s2 == [incrementNextOutgoingSequenceNumber(s1) EXCEPT !.sessionState = FinishedSent]
    IN  IF EncodeThrows(s1.currentWriteState)
        THEN Throw([w EXCEPT !.sessions[sid] = s1])
        ELSE SocketSend([w EXCEPT !.sessions[sid] = s2], dtlsRecord)

\* fourth part: Finished over the transcript so far.
SendFinished(w, sid) ==
    LET s == w.sessions[sid]
        clientVerifyData == PRF(s.securityParameters.masterSecret, "client finished",
                                TranscriptHash(s.allHandshakeMessagesAsBuffer), 12)
        handshakeMessage ==
            createFromMessageBuffer("Finished", s.handshakeMessageSequence, 0,
                                    [verifyData |-> clientVerifyData])
        s1 == [s EXCEPT !.handshakeMessageSequence = @ + 1,
                        !.allHandshakeMessagesAsBuffer = Append(@, handshakeMessage)]
        dtlsRecord == OutgoingRecord(sid, s1, DtlsHandshakeProtocol, handshakeMessage)
        s2 == [incrementNextOutgoingSequenceNumber(s1) EXCEPT !.sessionState = FinishedSent]
    IN  IF EncodeThrows(s1.currentWriteState)
        THEN Throw([w EXCEPT !.sessions[sid] = s1])
        ELSE SocketSend([w EXCEPT !.sessions[sid] = s2], dtlsRecord)

HandleServerHelloDone(w, sid, hm) ==
    LET w1 == SendClientKeyExchange(w, sid, hm)
        w2 == IF w1.crashed THEN w1 ELSE CalculateSecurityParameters(w1, sid)
        w3 == IF w2.crashed THEN w2 ELSE SendChangeCipherSpec(w2, sid)
    IN  IF w3.crashed THEN w3 ELSE SendFinished(w3, sid)

\* HandleFinished without the comparison of the verify data.
HandleFinished_Unverified(w, sid, hm) ==
    LET s == w.sessions[sid]
        w1 == [w EXCEPT !.sessions[sid].sessionState = Connected,
                        !.connectLog = Append(@, sid)]
        w2 == sendApplicationData(w1, sid, s.connectMsg)
    IN  IF s.securityParameters.masterSecret = NoSecret THEN Throw(w)
        ELSE DrainMessageQueue(w2, sid)

\* case enums.MessageType.Finished.  PRF throws on a null master secret.
HandleFinished(w, sid, hm) ==
    LET s == w.sessions[sid]
        serverVerifyData == PRF(s.securityParameters.masterSecret, "server finished",
                                TranscriptHash(s.allHandshakeMessagesAsBuffer), 12)
        w1 == [w EXCEPT !.sessions[sid].sessionState = Connected,
                        !.connectLog = Append(@, sid)]
        w2 == sendApplicationData(w1, sid, s.connectMsg)
    IN  IF s.securityParameters.masterSecret = NoSecret THEN Throw(w)
        ELSE IF serverVerifyData # hm.message.verifyData THEN Return(w)
        ELSE DrainMessageQueue(w2, sid)

\* The ChangeCipherSpec case without the test of the type.
HandleChangeCipherSpec_AnyType(w, sid, message) ==
    LET sp == w.sessions[sid].securityParameters
    IN  [w EXCEPT !.sessions[sid].currentReadState =
            DtlsConnectionState(sp.bulkEncryptionAlgorithm, sp.compressionMethod,
                                sp.macAlgorithm)]

\* case enums.ProtocolType.DtlsChangeCipherSpecProtocol
HandleChangeCipherSpec(w, sid, message) ==
    LET sp == w.sessions[sid].securityParameters
    IN  IF message.type # 1 THEN Return(w)
        ELSE [w EXCEPT !.sessions[sid].currentReadState =
                 DtlsConnectionState(sp.bulkEncryptionAlgorithm, sp.compressionMethod,
                                     sp.macAlgorithm)]

\* The disconnect listener DtlsSocket.send registers: splice the session out
\* of the list, then close the shared socket.
RECURSIVE Splice(_, _)
Splice(list, sid) ==
    IF list = << >> THEN << >>
    ELSE IF Head(list) = sid THEN Tail(list)
    ELSE <<Head(list)>> \o Splice(Tail(list), sid)

disconnectListener(w, sid) ==
    [w EXCEPT !.dtlsSessions = Splice(@, sid),
              !.socketOpen = FALSE,
              !.disconnectLog = Append(@, sid)]

\* case enums.ProtocolType.DtlsAlertProtocol
HandleAlert(w, sid, message) ==
    IF message.description = CloseNotify THEN disconnectListener(w, sid) ELSE w

\* case enums.ProtocolType.DtlsApplicationDataProtocol, through
\* DtlsSocket.prototype.onApplicationDataMessage
HandleApplicationData(w, sid, message) ==
    [w EXCEPT !.delivered = Append(@, [sid |-> sid, data |-> message.data])]

(***************************************************************************)
(* DtlsRecord.fromEncryptedBuffer under the session's read state.  An      *)
(* inbound record says how the peer protected it.  Under the NULL read     *)
(* state the bytes after the header are the fragment: a record the peer    *)
(* did not protect gives its body, a protected one gives ciphertext        *)
(* ("Garbage").  Under an AES read state only a record encrypted and       *)
(* MACed with the session's server keys decodes; everything else makes     *)
(* fromEncryptedBuffer return null or throw, and so does a read state      *)
(* whose algorithm is null.                                                *)
(***************************************************************************)
Undecodable == [kind |-> "Undecodable"]
Garbage == [kind |-> "Garbage"]
Truncated == [kind |-> "Truncated"]

fromEncryptedBuffer(s, record) ==
    LET alg == s.currentReadState.bulkEncryptionAlgorithm
    IN  CASE alg = "NULL" ->
               IF record.protection = "NULL" THEN record.body ELSE Garbage
          [] alg \in {"AES_128_CBC", "AES_256_CBC"} ->
               IF /\ record.protection = "AES"
                  /\ record.key = s.securityParameters.serverWriteKey
                  /\ record.macSecret = s.securityParameters.serverWriteMacSecret
               THEN record.body ELSE Undecodable
          [] OTHER -> Undecodable

\* One iteration of the while loop of DtlsSession.prototype.onSocketMessage.
\* A null result of fromEncryptedBuffer or of a message's fromBuffer is
\* dereferenced: TypeError.
HandleRecord(w, sid, record) ==
    LET body == fromEncryptedBuffer(w.sessions[sid], record)
        type == record.protocolType
    IN  IF body = Undecodable THEN Throw(w)
        ELSE IF type = DtlsHandshakeProtocol THEN
            CASE body \in {Garbage, Truncated} -> Throw(w)
              [] body.messageType = "HelloVerifyRequest" -> HandleHelloVerifyRequest(w, sid, body)
              [] body.messageType = "ServerHello" -> HandleServerHello(w, sid, body)
              [] body.messageType = "ServerHelloDone" -> HandleServerHelloDone(w, sid, body)
              [] body.messageType = "Finished" -> HandleFinished(w, sid, body)
              [] OTHER -> w
        ELSE IF type = DtlsChangeCipherSpecProtocol THEN
            IF body = Garbage THEN Return(w) ELSE HandleChangeCipherSpec(w, sid, body)
        ELSE IF type = DtlsAlertProtocol THEN
            IF body = Garbage THEN w ELSE HandleAlert(w, sid, body)
        ELSE IF type = DtlsApplicationDataProtocol THEN
            IF body = Garbage
            THEN HandleApplicationData(w, sid, [kind |-> "ApplicationData", data |-> 0])
            ELSE HandleApplicationData(w, sid, body)
        ELSE w

\* DtlsSession.prototype.onSocketMessage: the records of the datagram in
\* order, until the datagram ends, a handler returns or an exception leaves.
RECURSIVE SessionOnSocketMessage(_, _, _)
SessionOnSocketMessage(w, sid, msg) ==
    IF msg = << >> \/ w.crashed \/ w.returned THEN w
    ELSE SessionOnSocketMessage(HandleRecord(w, sid, Head(msg)), sid, Tail(msg))

(***************************************************************************)
(* What the peer can put in a datagram for a session in state s.  An       *)
(* honest server computes its verify data and protects its records with    *)
(* the secrets the session holds; WrongSecret and Flip are a peer that     *)
(* does not.                                                               *)
(***************************************************************************)
WrongSecret == [kind |-> "wrong"]
Flip(verifyData) == [kind |-> "flipped", of |-> verifyData]

ServerVerifyData(s) ==
    PRF(s.securityParameters.masterSecret, "server finished",
        TranscriptHash(s.allHandshakeMessagesAsBuffer), 12)

HelloVerifyRequest(cookie) ==
    createFromMessageBuffer("HelloVerifyRequest", 0, 0, [cookie |-> cookie])

ServerHello(cipherSuite, compressionMethod) ==
    createFromMessageBuffer("ServerHello", 1, 0,
        [random |-> "serverRandom", cipherSuite |-> cipherSuite,
         compressionMethod |-> compressionMethod])

ServerHelloDone == createFromMessageBuffer("ServerHelloDone", 2, 0, [empty |-> TRUE])

Finished(verifyData) ==
    createFromMessageBuffer("Finished", 3, 0, [verifyData |-> verifyData])

ChangeCipherSpec(type) == [kind |-> "ChangeCipherSpec", type |-> type]

Alert(level, description) ==
    [kind |-> "Alert", level |-> level, description |-> description]

ApplicationData(data) == [kind |-> "ApplicationData", data |-> data]

\* A record the peer did not protect (epoch 0), one it protected with the
\* secrets of session s, one it protected with other secrets.
Plain(type, body) ==
    [protocolType |-> type, body |-> body, protection |-> "NULL",
     key |-> NoSecret, macSecret |-> NoSecret]

Protected(s, type, body) ==
    [protocolType |-> type, body |-> body, protection |-> "AES",
     key |-> s.securityParameters.serverWriteKey,
     macSecret |-> s.securityParameters.serverWriteMacSecret]

Forged(type, body) ==
    [protocolType |-> type, body |-> body, protection |-> "AES",
     key |-> WrongSecret, macSecret |-> WrongSecret]

InboundBodies(s) ==
    {<<DtlsHandshakeProtocol, hm>> : hm \in
        {HelloVerifyRequest(JsNull), HelloVerifyRequest("cookie"),
         ServerHello(TLS_PSK_WITH_AES_128_CBC_SHA, 0),
         ServerHello(TLS_PSK_WITH_AES_256_CBC_SHA, 0),
         ServerHello(TLS_NULL_WITH_NULL_NULL, 0),
         ServerHello(TLS_PSK_WITH_AES_128_CBC_SHA, 1),
         ServerHelloDone,
         Finished(ServerVerifyData(s)), Finished(Flip(ServerVerifyData(s))),
         Truncated}}
    \cup {<<DtlsChangeCipherSpecProtocol, ChangeCipherSpec(t)>> : t \in {1, 2}}
    \cup {<<DtlsAlertProtocol, Alert(Warning, CloseNotify)>>,
          <<DtlsAlertProtocol, Alert(Warning, BadRecordMac)>>,
          <<DtlsAlertProtocol, Alert(Fatal, BadRecordMac)>>}
    \cup {<<DtlsApplicationDataProtocol, ApplicationData(100)>>}

\* What a host that is nobody's destination sends.
StrangerRecords ==
    {Plain(DtlsHandshakeProtocol, ServerHello(TLS_PSK_WITH_AES_128_CBC_SHA, 0)),
     Plain(DtlsAlertProtocol, Alert(Warning, CloseNotify))}

InboundRecords(s) ==
    {Plain(b[1], b[2]) : b \in InboundBodies(s)}
    \cup {Protected(s, b[1], b[2]) : b \in InboundBodies(s)}
    \cup {Forged(DtlsApplicationDataProtocol, ApplicationData(100)),
          Forged(DtlsAlertProtocol, Alert(Warning, CloseNotify))}

(***************************************************************************)
(* The server's script against session s: HelloVerifyRequest (with or      *)
(* without a cookie, or not at all), ServerHello with one of the two       *)
(* suites and NULL compression, ServerHelloDone, ChangeCipherSpec,         *)
(* Finished, then application data and at last close_notify, alone or     *)
(* with application data behind it in the same datagram.  A flight may     *)
(* come as one datagram.  Each element is the datagram and the script      *)
(* position after it.                                                      *)
(***************************************************************************)
ScriptServerHellos ==
    {Plain(DtlsHandshakeProtocol, ServerHello(cs, 0)) :
        cs \in {TLS_PSK_WITH_AES_128_CBC_SHA, TLS_PSK_WITH_AES_256_CBC_SHA}}

ScriptDatagrams(step, data, s) ==
    LET hvr == {[msg |-> <<Plain(DtlsHandshakeProtocol, HelloVerifyRequest(c))>>,
                 step |-> "verify"] : c \in {JsNull, "cookie"}}
        sh == {[msg |-> <<r>>, step |-> "hello"] : r \in ScriptServerHellos}
             \cup {[msg |-> <<r, Plain(DtlsHandshakeProtocol, ServerHelloDone)>>,
                    step |-> "hellodone"] : r \in ScriptServerHellos}
        shd == {[msg |-> <<Plain(DtlsHandshakeProtocol, ServerHelloDone)>>,
                 step |-> "hellodone"]}
        ccs == Plain(DtlsChangeCipherSpecProtocol, ChangeCipherSpec(1))
        fin == Protected(s, DtlsHandshakeProtocol, Finished(ServerVerifyData(s)))
    IN  CASE step = "start" -> hvr \cup sh
          [] step = "verify" -> sh
          [] step = "hello" -> shd
          [] step = "hellodone" -> {[msg |-> <<ccs>>, step |-> "ccs"],
                                    [msg |-> <<ccs, fin>>, step |-> "finished"]}
          [] step = "ccs" -> {[msg |-> <<fin>>, step |-> "finished"]}
          [] step = "finished" ->
                {[msg |-> <<Protected(s, DtlsApplicationDataProtocol,
                                      ApplicationData(100 + data))>>,
                  step |-> "finished"] : x \in {y \in {1} : data < MaxPeerData}}
                \cup {[msg |-> <<Protected(s, DtlsAlertProtocol,
                                           Alert(Warning, CloseNotify))>>,
                       step |-> "closed"],
                      [msg |-> <<Protected(s, DtlsAlertProtocol,
                                           Alert(Warning, CloseNotify)),
                                 Protected(s, DtlsApplicationDataProtocol,
                                           ApplicationData(100 + data))>>,
                       step |-> "closed"]}
          [] OTHER -> {}

(***************************************************************************)
(* DtlsSocket.                                                             *)
(***************************************************************************)
\* for (iSession ...) { if (...) { dtlsSession = testSession; break } }: the
\* session at the first of the matching positions hits of the list, or 0.
FirstMatch(list, hits) ==
    IF hits = {} THEN 0
    ELSE list[CHOOSE i \in hits : \A j \in hits : i <= j]


Commit(w) ==
    /\ sessions' = w.sessions
    /\ dtlsSessions' = w.dtlsSessions
    /\ sent' = w.sent
    /\ socketOpen' = w.socketOpen
    /\ crashed' = w.crashed
    /\ connectLog' = w.connectLog
    /\ disconnectLog' = w.disconnectLog
    /\ delivered' = w.delivered

\* No codec function is under test while the endpoint runs.
CodecIdle == [kind |-> "idle"]

Constructed ==
    /\ sessions = << >>
    /\ dtlsSessions = << >>
    /\ sent = << >>
    /\ socketOpen = TRUE
    /\ crashed = FALSE
    /\ connectLog = << >>
    /\ disconnectLog = << >>
    /\ delivered = << >>
    /\ sendCount = 0
    /\ last = [op |-> "init", sid |-> 0, msg |-> << >>, src |-> <<"", 0>>,
               key |-> << >>, script |-> FALSE, data |-> 0]
    /\ peer = [step |-> "start", cookie |-> "none", data |-> 0, faults |-> 0]
    /\ pending = {}

Init ==
    /\ Constructed
    /\ socketType \in SocketTypes
    /\ codec = CodecIdle

\* isIpAddress(ipAddressFamily, ipAddress): for "udp4" the IPv4 pattern is
\* tested on ipAddress; for any other family the IPv6 pattern is tested on
\* 'ipaddress', a name declared nowhere, and the call throws.
isIpAddress(ipAddressFamily, ipAddress) ==
    IF ipAddressFamily = "udp4"
    THEN IF ipAddress \in {"10.0.0.1", "10.0.0.2", "10.0.0.9"} THEN "true" ELSE "false"
    ELSE "throws"

\* The lookup of ipAddressResolvedCallback finding no session.
SendFound_Never(w, ipAddress, port, pskIdentity, pskPassword) == 0

\* The session lookup of ipAddressResolvedCallback.
SendFound(w, ipAddress, port, pskIdentity, pskPassword) ==
    LET match(sid) == /\ ipAddress = w.sessions[sid].dstIpAddress
                      /\ port = w.sessions[sid].dstPort
                      /\ pskIdentity = w.sessions[sid].pskIdentity
                      /\ pskPassword = w.sessions[sid].pskPassword
    IN  FirstMatch(w.dtlsSessions,
                   {i \in 1..Len(w.dtlsSessions) : match(w.dtlsSessions[i])})

\* ipAddressResolvedCallback(null, [host]) of DtlsSocket.prototype.send.
DtlsSocketSend(w, msg, port, host, pskIdentity, pskPassword) ==
    LET found == SendFound(w, host, port, pskIdentity, pskPassword)
        sid == Len(w.sessions) + 1
        w1 == [w EXCEPT !.sessions = Append(@, NewDtlsSession),
                        !.dtlsSessions = Append(@, sid)]
    IN  IF found = 0
        THEN connect(w1, sid, port, host, pskIdentity, pskPassword, msg)
        ELSE sendApplicationData(w, found, msg)

\* The callback without the test of err: addresses[0] of an answer that
\* carries no addresses throws.
ipAddressResolvedCallback_NoErrorCheck(w, err, addresses, msg, port, pskIdentity, pskPassword) ==
    IF err # JsNull THEN Throw(w)
    ELSE DtlsSocketSend(w, msg, port, addresses[1], pskIdentity, pskPassword)

\* ipAddressResolvedCallback(err, addresses): an error ends the callback,
\* otherwise the first address is the destination.
ipAddressResolvedCallback(w, err, addresses, msg, port, pskIdentity, pskPassword) ==
    IF err # JsNull THEN w
    ELSE DtlsSocketSend(w, msg, port, addresses[1], pskIdentity, pskPassword)

\* DtlsSocket.prototype.send: a literal address runs the callback inside the
\* call, a host name leaves a dns.resolve in flight.
Send ==
    /\ ~crashed
    /\ sendCount < MaxSends
    /\ \E k \in SendKeys :
        LET host == k[1]
            pskIdentity == k[2]
            pskPassword == k[3]
            literal == isIpAddress(socketType, host)
            request == [msg |-> sendCount + 1, port |-> PeerPort, host |-> host,
                        pskIdentity |-> pskIdentity, pskPassword |-> pskPassword]
        IN  CASE literal = "throws" ->
                   /\ Commit(Throw(World))
                   /\ pending' = pending
                   /\ last' = [op |-> "throw", sid |-> 0, msg |-> << >>,
                               src |-> <<host, PeerPort>>, key |-> k,
                               script |-> FALSE, data |-> sendCount + 1]
              [] literal = "true" ->
                   /\ Commit(ipAddressResolvedCallback(World, JsNull, <<host>>,
                                 sendCount + 1, PeerPort, pskIdentity, pskPassword))
                   /\ pending' = pending
                   /\ last' = [op |-> "send",
                               sid |-> SendFound(World, host, PeerPort,
                                                 pskIdentity, pskPassword),
                               msg |-> << >>, src |-> <<host, PeerPort>>, key |-> k,
                               script |-> FALSE, data |-> sendCount + 1]
              [] OTHER ->
                   /\ Commit(World)
                   /\ pending' = pending \cup {request}
                   /\ last' = [op |-> "resolve", sid |-> 0, msg |-> << >>,
                               src |-> <<host, PeerPort>>, key |-> k,
                               script |-> FALSE, data |-> sendCount + 1]
    /\ sendCount' = sendCount + 1
    /\ UNCHANGED <<peer, socketType, codec>>

\* The resolver calls back for one of the requests in flight, in any order,
\* with an error or with the addresses of the host.
IpAddressResolved ==
    /\ ~crashed
    /\ \E request \in pending :
       \E answer \in Resolutions(request.host) :
          LET err == answer.err
              addresses == answer.addresses
              key == <<IF err = JsNull THEN addresses[1] ELSE request.host,
                       request.pskIdentity, request.pskPassword>>
          IN  /\ Commit(ipAddressResolvedCallback(World, err, addresses, request.msg,
                            request.port, request.pskIdentity, request.pskPassword))
              /\ pending' = pending \ {request}
              /\ last' = [op |-> IF err = JsNull THEN "send" ELSE "dropped",
                          sid |-> IF err = JsNull
                                  THEN SendFound(World, addresses[1], request.port,
                                           request.pskIdentity, request.pskPassword)
                                  ELSE 0,
                          msg |-> << >>, src |-> <<key[1], request.port>>, key |-> key,
                          script |-> FALSE, data |-> request.msg]
    /\ UNCHANGED <<sendCount, peer, socketType, codec>>

\* The lookup of onSocketMessage comparing the port alone.
RouteFound_PortOnly(w, address, port) ==
    LET match(sid) == port = w.sessions[sid].dstPort
    IN  FirstMatch(w.dtlsSessions,
                   {i \in 1..Len(w.dtlsSessions) : match(w.dtlsSessions[i])})

\* DtlsSocket.prototype.onSocketMessage
RouteFound(w, address, port) ==
    LET match(sid) == /\ address = w.sessions[sid].dstIpAddress
                      /\ port = w.sessions[sid].dstPort
    IN  FirstMatch(w.dtlsSessions,
                   {i \in 1..Len(w.dtlsSessions) : match(w.dtlsSessions[i])})

DtlsSocketOnSocketMessage(w, msg, address, port) ==
    LET found == RouteFound(w, address, port)
    IN  IF found = 0 THEN w ELSE SessionOnSocketMessage(w, found, msg)

\* A datagram of the server's script for the session its datagrams are
\* routed to.
OnScriptMessage ==
    LET found == RouteFound(World, ServerAddress, PeerPort)
    IN  /\ found # 0
        /\ \E d \in ScriptDatagrams(peer.step, peer.data, sessions[found]) :
              /\ Commit(DtlsSocketOnSocketMessage(World, d.msg, ServerAddress, PeerPort))
              /\ last' = [op |-> "message", sid |-> found, msg |-> d.msg,
                          src |-> <<ServerAddress, PeerPort>>, key |-> << >>,
                          script |-> TRUE, data |-> 0]
              /\ peer' = [peer EXCEPT !.step = d.step,
                                      !.cookie = IF d.step = "verify"
                                                 THEN d.msg[1].body.message.cookie ELSE @,
                                      !.data = IF d.step = "finished" /\ peer.step = "finished"
                                               THEN @ + 1 ELSE @]

\* Any other datagram, from the server's address or a stranger's.
OffScriptMessage ==
    /\ peer.faults < MaxFaults
    /\ \E src \in Sources :
         LET found == RouteFound(World, src[1], src[2])
             s == IF found = 0 THEN NewDtlsSession ELSE sessions[found]
         IN  \E r \in IF src = <<ServerAddress, PeerPort>>
                      THEN InboundRecords(s) ELSE StrangerRecords :
                /\ Commit(DtlsSocketOnSocketMessage(World, <<r>>, src[1], src[2]))
                /\ last' = [op |-> "message", sid |-> found, msg |-> <<r>>,
                            src |-> src, key |-> << >>, script |-> FALSE,
                            data |-> 0]
    /\ peer' = [peer EXCEPT !.faults = @ + 1]

OnSocketMessage ==
    /\ ~crashed
    /\ socketOpen
    /\ OnScriptMessage \/ OffScriptMessage
    /\ UNCHANGED <<sendCount, pending, socketType, codec>>

Next == Send \/ IpAddressResolved \/ OnSocketMessage

Spec == Init /\ [][Next]_vars

(***************************************************************************)
(* The codec functions on their own: an input is drawn, the function is    *)
(* applied, what it produced is (for a record) altered on the way or not,  *)
(* and the inverse function is applied.                                    *)
(***************************************************************************)
Fragment(length) == [i \in 1..length |-> (7 * i + 3) % 256]

RecordSuites == {"AES_128_CBC", "AES_256_CBC"}

\* The key material of the connection state under test, the IV randomBytes
\* returns, and a key the sender did not use.
TestKeys == [blockEncryptionKey |-> 1, macSecret |-> 2, randomIV |-> 3, otherKey |-> 9]

RecordInputs ==
    [bulkEncryptionAlgorithm : RecordSuites,
     length : FragmentLengths,
     epoch : {0, 65535},
     sequenceNumber : {<<0, 0>>, <<Limb - 1, Limb - 1>>}]

NoBuffer ==
    [header |-> << >>, iv |-> 0, ivLength |-> 0,
     ciphertext |-> Cipheriv(0, 0, << >>), length |-> 0]

NoDecode == [result |-> [outcome |-> "none"], verification |-> NoVerification]

RecordOf(input) ==
    createFromPlaintext(23, DTLS_1_0, input.epoch, input.sequenceNumber,
                        Fragment(input.length)).record

\* What a sender that holds the keys, or a change to the ciphertext on the
\* way, can make of the plaintext the receiver decrypts: a wrong padding
\* byte, a wrong MAC byte, both, or a padding length beyond the record.
Tampers == {"padding", "mac", "both", "length", "key"}

FlipByte(bytes, i) == [bytes EXCEPT ![i] = (bytes[i] + 1) % 256]

TamperedPlain(plain, kind) ==
    LET n == Len(plain)
        paddingLength == plain[n]
        lastMacByte == n - paddingLength - 1
    IN  CASE kind = "padding" -> FlipByte(plain, n - 1)
          [] kind = "mac" -> FlipByte(plain, lastMacByte)
          [] kind = "both" -> FlipByte(FlipByte(plain, lastMacByte), n - 1)
          [] kind = "length" -> [plain EXCEPT ![n] = 255]
          [] OTHER -> plain

\* The verifyData, cookies, versions and identities the message codecs are
\* given: in the domain, at its edges, and outside it.
Bytes(length) == [i \in 1..length |-> (11 * i + 5) % 256]

VerifyDataValues ==
    {JsNullValue, JsUndefined, JsString(Bytes(12)), JsUint8Array(Bytes(12)), JsNumber(12),
     JsBuffer(Bytes(0)), JsBuffer(Bytes(11)), JsBuffer(Bytes(12)), JsBuffer(Bytes(13))}

VersionValues == {JsNumber(DTLS_1_0), JsNumber(65277), JsNullValue}

CookieValues ==
    {JsNullValue, JsUndefined, JsString(Bytes(4)), JsNumber(4),
     JsBuffer(Bytes(0)), JsBuffer(Bytes(1)), JsBuffer(Bytes(32)), JsBuffer(Bytes(33))}

IdentityValues ==
    {JsNullValue, JsUndefined, JsString(Bytes(4)), JsUint8Array(Bytes(4)),
     JsBuffer(Bytes(0)), JsBuffer(Bytes(5)), JsBuffer(Bytes(MAX_IDENTITY_LENGTH)),
     JsBuffer(Bytes(MAX_IDENTITY_LENGTH + 1))}

MessageInput(codecName, fields) ==
    [kind |-> "message", stage |-> "input", codecName |-> codecName, fields |-> fields,
     via |-> "none", truncated |-> FALSE,
     created |-> ReturnsNull, serialized |-> ReturnsNull, parsed |-> ReturnsNull]

\* The arguments ValidateDeserializationArguments is given.
ValidatedBuffers ==
    {JsUndefined, JsNullValue, JsString(Bytes(4)), JsUint8Array(Bytes(4)),
     JsBuffer(Bytes(0)), JsBuffer(Bytes(4))}

ValidatedOffsets ==
    {JsUndefined, JsNullValue, JsString(Bytes(1)),
     JsNumber(-1), JsNumber(0), JsNumber(2), JsNumber(4), JsNumber(5)}

ValidatedMinimumLengths ==
    {JsUndefined, JsString(Bytes(1)),
     JsNumber(-1), JsNumber(0), JsNumber(2), JsNumber(4), JsNumber(5)}

\* The outbound counters of a session that has sent many records: the epoch
\* a number, the 48-bit sequence number as <<high, low>> 24-bit halves, which
\* a JavaScript number holds exactly up to 2^53.
CounterEpochs == {0, 65534, 65535}
CounterSequenceNumbers == {<<0, 0>>, <<Limb - 1, Limb - 2>>, <<Limb - 1, Limb - 1>>}
MaxEmits == 3

\* this.nextOutgoingSequenceNumber++ on the two halves: no limit is tested.
SequenceNumberIncremented(c) ==
    [c EXCEPT !.nextOutgoingSequenceNumber =
        IF @[2] + 1 = Limb THEN <<@[1] + 1, 0>> ELSE <<@[1], @[2] + 1>>]

\* this.nextOutgoingEpoch++; this.nextOutgoingSequenceNumber = 0;
EpochIncremented(c) ==
    [c EXCEPT !.nextOutgoingEpoch = @ + 1, !.nextOutgoingSequenceNumber = <<0, 0>>]

\* The steps every sender of DtlsSession shares: createFromPlaintext with the
\* counters as they are (a RangeError leaves the function before anything is
\* counted or sent), then the increment (of the epoch after a
\* ChangeCipherSpec, type 20, of the sequence number otherwise), then
\* socket.send.
EmitWith(c, type) ==
    LET created == createFromPlaintext(type, DTLS_1_0, c.nextOutgoingEpoch,
                                       c.nextOutgoingSequenceNumber, Fragment(1))
    IN  IF created.outcome = "throws"
        THEN [c EXCEPT !.thrown = TRUE]
        ELSE [(IF type = 20 THEN EpochIncremented(c) ELSE SequenceNumberIncremented(c))
              EXCEPT
                 !.emitted = Append(@, [epoch |-> created.record.epoch,
                                        sequenceNumber |-> created.record.sequenceNumber])]

\* The lengths of the secrets handed to PRF.
SecretLengths == 1..9 \cup {48}
NoHalves == [first |-> << >>, second |-> << >>]

\* Math.trunc of a number given as its double: secret.length / 2 is a
\* JavaScript number, a whole number and a half when the length is odd.
TruncOfHalf(twice) ==
    IF twice >= 0 THEN twice \div 2 ELSE 0 - ((0 - twice) \div 2)

\* The split of the secret in exports.PRF:
\*   secretEachHalfLength = (secret.length / 2) + (secret.length % 2)
\*   secretFirstHalf = secret.slice(0, secretEachHalfLength)
\*   secretSecondHalf = secret.slice((secret.length / 2) - (secret.length % 2),
\*                                   secret.length)
\* slice truncates the numbers it is given toward zero.
PRFSecretHalves(secret) ==
    LET twiceEachHalfLength == Len(secret) + 2 * (Len(secret) % 2)
        twiceSecondStart == Len(secret) - 2 * (Len(secret) % 2)
    IN  [first |-> BufferSlice(secret, 0, TruncOfHalf(twiceEachHalfLength)),
         second |-> BufferSlice(secret, TruncOfHalf(twiceSecondStart), Len(secret))]

CodecInit ==
    /\ Constructed
    /\ socketType = "udp4"
    /\ \/ codec \in {[kind |-> "record", stage |-> "input", input |-> input,
                      tamper |-> "none", encoded |-> NoBuffer, decoded |-> NoDecode]
                     : input \in RecordInputs}
       \/ \E verifyData \in VerifyDataValues :
             codec = MessageInput("Finished", [verifyData |-> verifyData])
       \/ \E serverVersion \in VersionValues, cookie \in CookieValues :
             codec = MessageInput("HelloVerifyRequest",
                                  [serverVersion |-> serverVersion, cookie |-> cookie])
       \/ \E identity \in IdentityValues :
             codec = MessageInput("PskClientKeyExchange", [identity |-> identity])
       \/ codec = MessageInput("ServerHelloDone", ServerHelloDoneMessage)
       \/ \E buffer \in ValidatedBuffers, offset \in ValidatedOffsets,
              minimumLength \in ValidatedMinimumLengths :
             codec = [kind |-> "validate", stage |-> "input", buffer |-> buffer,
                      offset |-> offset, minimumLength |-> minimumLength,
                      result |-> "none"]
       \/ \E secretLength \in SecretLengths :
             codec = [kind |-> "prf", stage |-> "input",
                      secret |-> Fragment(secretLength), halves |-> NoHalves]
       \/ \E epoch \in CounterEpochs, sequenceNumber \in CounterSequenceNumbers :
             codec = [kind |-> "counters", nextOutgoingEpoch |-> epoch,
                      nextOutgoingSequenceNumber |-> sequenceNumber,
                      emitted |-> << >>, thrown |-> FALSE]

\* record.toEncryptedBuffer(...) on a record made by createFromPlaintext
ToEncryptedBuffer ==
    /\ codec.kind = "record"
    /\ codec.stage = "input"
    /\ LET encoded == toEncryptedBufferBytes(RecordOf(codec.input),
                          codec.input.bulkEncryptionAlgorithm, TestKeys.blockEncryptionKey,
                          "SHA1", TestKeys.macSecret, TestKeys.randomIV)
       IN  codec' = [codec EXCEPT !.stage = "encoded", !.encoded = encoded.buffer]
    /\ UNCHANGED endpointVars

Tamper ==
    /\ codec.kind = "record"
    /\ codec.stage = "encoded"
    /\ \E kind \in Tampers :
          /\ kind \in {"padding", "both"} => codec.encoded.ciphertext.plain[
                                                Len(codec.encoded.ciphertext.plain)] >= 1
          /\ codec' = [codec EXCEPT
                 !.stage = "tampered",
                 !.tamper = kind,
                 !.encoded.ciphertext.plain = TamperedPlain(@, kind)]
    /\ UNCHANGED endpointVars

\* DtlsRecord.fromEncryptedBuffer(buffer, 0, ...) on what arrived
FromEncryptedBuffer ==
    /\ codec.kind = "record"
    /\ codec.stage \in {"encoded", "tampered"}
    /\ codec' = [codec EXCEPT
           !.stage = "decoded",
           !.decoded = DecodeRecord(codec.encoded, codec.input.bulkEncryptionAlgorithm,
                           IF codec.tamper = "key" THEN TestKeys.otherKey
                           ELSE TestKeys.blockEncryptionKey,
                           "SHA1", TestKeys.macSecret)]
    /\ UNCHANGED endpointVars

CreateOf(codecName, fields) ==
    CASE codecName = "Finished" -> FinishedCreate(fields.verifyData)
      [] codecName = "HelloVerifyRequest" ->
            HelloVerifyRequestCreate(fields.serverVersion, fields.cookie)
      [] codecName = "PskClientKeyExchange" -> PskClientKeyExchangeCreate(fields.identity)
      [] OTHER -> ServerHelloDoneCreate

ToBufferOf(codecName, message) ==
    CASE codecName = "Finished" -> FinishedToBuffer(message)
      [] codecName = "HelloVerifyRequest" -> HelloVerifyRequestToBuffer(message)
      [] codecName = "PskClientKeyExchange" -> PskClientKeyExchangeToBuffer(message)
      [] OTHER -> ServerHelloDoneToBuffer(message)

FromBufferOf(codecName, buffer, offset) ==
    CASE codecName = "Finished" -> FinishedFromBuffer(buffer, offset)
      [] codecName = "HelloVerifyRequest" -> HelloVerifyRequestFromBuffer(buffer, offset)
      [] codecName = "PskClientKeyExchange" -> PskClientKeyExchangeFromBuffer(buffer, offset)
      [] OTHER -> ServerHelloDoneFromBuffer(buffer, offset)

\* <Message>.create(fields...)
Create ==
    /\ codec.kind = "message"
    /\ codec.stage = "input"
    /\ codec' = [codec EXCEPT !.stage = "created", !.via = "create",
                              !.created = CreateOf(codec.codecName, codec.fields)]
    /\ UNCHANGED endpointVars

\* A message object whose fields are assigned directly, as the tests do
\* before they call toBuffer.
AssignFields ==
    /\ codec.kind = "message"
    /\ codec.stage = "input"
    /\ codec' = [codec EXCEPT !.stage = "created", !.via = "assign",
                              !.created = ReturnsMessage(codec.fields)]
    /\ UNCHANGED endpointVars

\* message.toBuffer()
ToBuffer ==
    /\ codec.kind = "message"
    /\ codec.stage = "created"
    /\ codec.created.outcome = "message"
    /\ codec' = [codec EXCEPT !.stage = "serialized",
                              !.serialized = ToBufferOf(codec.codecName,
                                                        codec.created.message)]
    /\ UNCHANGED endpointVars

\* Only the first bytes of the serialized message have arrived.
Truncate ==
    /\ codec.kind = "message"
    /\ codec.stage = "serialized"
    /\ codec.serialized.outcome = "buffer"
    /\ ~codec.truncated
    /\ \E length \in {0, 1, 2, 3, Len(codec.serialized.buffer) - 1} :
          /\ 0 <= length
          /\ length < Len(codec.serialized.buffer)
          /\ codec' = [codec EXCEPT !.truncated = TRUE,
                                    !.serialized.buffer = SubSeq(@, 1, length)]
    /\ UNCHANGED endpointVars

\* <Message>.fromBuffer(buffer), offset left out
FromBuffer ==
    /\ codec.kind = "message"
    /\ codec.stage = "serialized"
    /\ codec.serialized.outcome = "buffer"
    /\ codec' = [codec EXCEPT !.stage = "parsed",
                              !.parsed = FromBufferOf(codec.codecName,
                                             JsBuffer(codec.serialized.buffer),
                                             JsUndefined)]
    /\ UNCHANGED endpointVars

\* SerializationHelper.ValidateDeserializationArguments(buffer, offset, minimumLength)
Validate ==
    /\ codec.kind = "validate"
    /\ codec.stage = "input"
    /\ codec' = [codec EXCEPT !.stage = "validated",
                              !.result = ValidateDeserializationArguments(
                                             codec.buffer, codec.offset,
                                             codec.minimumLength)]
    /\ UNCHANGED endpointVars

\* A record that counts a sequence number: sendApplicationData, or one of the
\* handshake records.
EmitRecord ==
    /\ codec.kind = "counters"
    /\ ~codec.thrown
    /\ Len(codec.emitted) < MaxEmits
    /\ codec' = EmitWith(codec, 23)
    /\ UNCHANGED endpointVars

\* The ChangeCipherSpec record, which counts an epoch.
EmitChangeCipherSpec ==
    /\ codec.kind = "counters"
    /\ ~codec.thrown
    /\ Len(codec.emitted) < MaxEmits
    /\ codec' = EmitWith(codec, 20)
    /\ UNCHANGED endpointVars

\* CryptoUtils.PRF up to the two calls of P_hash.
SplitSecret ==
    /\ codec.kind = "prf"
    /\ codec.stage = "input"
    /\ codec' = [codec EXCEPT !.stage = "split",
                              !.halves = PRFSecretHalves(codec.secret)]
    /\ UNCHANGED endpointVars

CodecNext ==
    \/ ToEncryptedBuffer
    \/ Tamper
    \/ FromEncryptedBuffer
    \/ Create
    \/ AssignFields
    \/ ToBuffer
    \/ Truncate
    \/ FromBuffer
    \/ Validate
    \/ EmitRecord
    \/ EmitChangeCipherSpec
    \/ SplitSecret

CodecSpec == CodecInit /\ [][CodecNext]_vars

(***************************************************************************)
(* Properties.                                                             *)
(***************************************************************************)
Range(seq) == {seq[i] : i \in 1..Len(seq)}

\* The session the server's datagrams are routed to (0: none).
ServerSession == RouteFound(World, ServerAddress, PeerPort)

IsHandshake(record, messageType) ==
    /\ record.protocolType = DtlsHandshakeProtocol
    /\ record.fragment.messageType = messageType

IsApplicationData(record) == record.protocolType = DtlsApplicationDataProtocol

\* The records of session sid in log that satisfy Test, in order.
RecordsOf(log, sid, Test(_)) ==
    LET Keep(record) == record.sid = sid /\ Test(record)
    IN  SelectSeq(log, Keep)

ClientHellosOf(log, sid) ==
    LET Test(record) == IsHandshake(record, "ClientHello")
    IN  RecordsOf(log, sid, Test)

Occurrences(seq, x) == Cardinality({i \in 1..Len(seq) : seq[i] = x})

\* C1: on the happy path (HelloVerifyRequest with a cookie, ServerHello with
\* one of the two suites and NULL compression, ServerHelloDone,
\* ChangeCipherSpec(1), correct Finished, in that order and nothing else) the
\* session is ClientHelloSent until ServerHelloDone, FinishedSent until the
\* server's Finished and Connected after it, the endpoint is still running,
\* and the connect callback has fired exactly once at the end and not before.
C1_HappyPath ==
    (/\ peer.faults = 0
     /\ peer.cookie # "none"
     /\ peer.step \in {"verify", "hello", "hellodone", "ccs", "finished"})
    => /\ ~crashed
       /\ ServerSession # 0
       /\ sessions[ServerSession].sessionState =
              (CASE peer.step \in {"verify", "hello"} -> ClientHelloSent
                 [] peer.step \in {"hellodone", "ccs"} -> FinishedSent
                 [] OTHER -> Connected)
       /\ Occurrences(connectLog, ServerSession) =
              IF peer.step = "finished" THEN 1 ELSE 0

\* C2: a HelloVerifyRequest received in ClientHelloSent is answered with a
\* ClientHello carrying the received cookie and the session stays in
\* ClientHelloSent; the session's first ClientHello carries no cookie, and a
\* session that had emitted one ClientHello has emitted exactly two.
C2_HelloVerifyRequestAnswered ==
    [][(/\ last'.op = "message" /\ last'.sid # 0 /\ Len(last'.msg) = 1
        /\ last'.msg[1].protection = "NULL"
        /\ last'.msg[1].protocolType = DtlsHandshakeProtocol
        /\ last'.msg[1].body # Truncated
        /\ last'.msg[1].body.messageType = "HelloVerifyRequest"
        /\ sessions[last'.sid].sessionState = ClientHelloSent
        /\ sessions[last'.sid].currentReadState = NullConnectionState)
       => LET sid == last'.sid
              cookie == last'.msg[1].body.message.cookie
              hellos == ClientHellosOf(sent', sid)
          IN  /\ sessions'[sid].sessionState = ClientHelloSent
              /\ Len(sent') = Len(sent) + 1
              /\ sent'[Len(sent')].sid = sid
              /\ IsHandshake(sent'[Len(sent')], "ClientHello")
              /\ sent'[Len(sent')].fragment.message.cookie = cookie
              /\ hellos[1].fragment.message.cookie = JsNull
              /\ Len(ClientHellosOf(sent, sid)) = 1 => Len(hellos) = 2]_vars

\* C3: ServerHelloDone, received in ClientHelloSent after a ServerHello that
\* negotiated a suite and NULL compression and with the write state still
\* NULL, makes the client emit ClientKeyExchange, ChangeCipherSpec and
\* Finished in this order; ChangeCipherSpec goes out under the NULL state
\* with the old epoch; the epoch grows by one, the sequence number restarts
\* and the write state becomes the negotiated one, so that Finished goes out
\* under the negotiated state with epoch 1 and sequence number 0; afterwards
\* the next sequence number is 1 and the state is FinishedSent.
C3_SecondFlight ==
    [][(/\ last'.op = "message" /\ last'.sid # 0
        /\ last'.msg = <<Plain(DtlsHandshakeProtocol, ServerHelloDone)>>
        /\ sessions[last'.sid].sessionState = ClientHelloSent
        /\ sessions[last'.sid].currentReadState = NullConnectionState
        /\ sessions[last'.sid].currentWriteState = NullConnectionState
        /\ sessions[last'.sid].securityParameters.bulkEncryptionAlgorithm
               \in {"AES_128_CBC", "AES_256_CBC"}
        /\ sessions[last'.sid].securityParameters.compressionMethod = "NULL")
       => LET sid == last'.sid
              s == sessions[sid]
              t == sessions'[sid]
              n == Len(sent)
              negotiated == DtlsConnectionState(s.securityParameters.bulkEncryptionAlgorithm,
                                                "NULL", s.securityParameters.macAlgorithm)
          IN  /\ Len(sent') = n + 3
              /\ SubSeq(sent', 1, n) = sent
              /\ \A i \in 1..3 : sent'[n + i].sid = sid
              /\ IsHandshake(sent'[n + 1], "ClientKeyExchange")
              /\ sent'[n + 1].epoch = s.nextOutgoingEpoch
              /\ sent'[n + 1].sequenceNumber = s.nextOutgoingSequenceNumber
              /\ sent'[n + 2].protocolType = DtlsChangeCipherSpecProtocol
              /\ sent'[n + 2].bulkEncryptionAlgorithm = "NULL"
              /\ sent'[n + 2].macAlgorithm = "NULL"
              /\ sent'[n + 2].epoch = s.nextOutgoingEpoch
              /\ sent'[n + 2].sequenceNumber = s.nextOutgoingSequenceNumber + 1
              /\ t.nextOutgoingEpoch = s.nextOutgoingEpoch + 1
              /\ t.currentWriteState = negotiated
              /\ IsHandshake(sent'[n + 3], "Finished")
              /\ sent'[n + 3].bulkEncryptionAlgorithm = negotiated.bulkEncryptionAlgorithm
              /\ sent'[n + 3].macAlgorithm = negotiated.macAlgorithm
              /\ sent'[n + 3].key = t.securityParameters.clientWriteKey
              /\ sent'[n + 3].key # NoSecret
              /\ sent'[n + 3].epoch = 1
              /\ sent'[n + 3].sequenceNumber = 0
              /\ t.nextOutgoingSequenceNumber = 1
              /\ t.sessionState = FinishedSent]_vars

\* A ServerHelloDone has just been answered with the second flight.
C3_SecondFlightSent ==
    /\ last.op = "message" /\ last.sid # 0
    /\ last.msg = <<Plain(DtlsHandshakeProtocol, ServerHelloDone)>>
    /\ ~crashed
    /\ Len(sent) >= 4
    /\ IsHandshake(sent[Len(sent)], "Finished")
    /\ sent[Len(sent)].epoch = 1
    /\ sent[Len(sent) - 1].protocolType = DtlsChangeCipherSpecProtocol
    /\ sent[Len(sent) - 1].epoch = 0
    /\ sessions[last.sid].sessionState = FinishedSent

\* C4: a server Finished whose verify data is not
\* PRF(master, "server finished", MD5(T) || SHA1(T), 12) for the session's
\* master secret and transcript T does not make the session Connected, fires
\* no connect callback and causes no transmission.
C4_BadFinishedRejected ==
    [][(/\ last'.op = "message" /\ last'.sid # 0 /\ Len(last'.msg) = 1
        /\ last'.msg[1].protocolType = DtlsHandshakeProtocol
        /\ last'.msg[1].body # Truncated
        /\ last'.msg[1].body.messageType = "Finished"
        /\ last'.msg[1].body.message.verifyData # ServerVerifyData(sessions[last'.sid]))
       => /\ sessions'[last'.sid].sessionState = sessions[last'.sid].sessionState
          /\ sessions'[last'.sid].messageQueue = sessions[last'.sid].messageQueue
          /\ connectLog' = connectLog
          /\ sent' = sent]_vars

\* A Finished with flipped verify data has been compared and rejected by a
\* session that waits for the server's Finished with a payload queued.
C4_BadFinishedSeen ==
    /\ last.op = "message" /\ last.sid # 0 /\ Len(last.msg) = 1
    /\ ~crashed
    /\ last.msg[1] = Protected(sessions[last.sid], DtlsHandshakeProtocol,
                               Finished(Flip(ServerVerifyData(sessions[last.sid]))))
    /\ sessions[last.sid].sessionState = FinishedSent
    /\ sessions[last.sid].currentReadState.bulkEncryptionAlgorithm = "AES_128_CBC"
    /\ Len(sessions[last.sid].messageQueue) > 0
    /\ connectLog = << >>

\* The application-data records of session sid in log that carry payload data.
PayloadRecords(log, sid, data) ==
    {i \in 1..Len(log) : /\ log[i].sid = sid
                         /\ IsApplicationData(log[i])
                         /\ log[i].fragment.data = data}

\* C5: a payload is never transmitted by a session whose connect callback
\* has not fired and never transmitted twice; when a session connects, the
\* payload of the send that created it and every payload in its queue go
\* out as one application-data record each, under the negotiated write state
\* and the client write key, and nothing else does.
C5_QueuedPayloadsOnce ==
    [][/\ \A sid \in 1..Len(sessions'), data \in 1..sendCount' :
             /\ Cardinality(PayloadRecords(sent', sid, data)) <= 1
             /\ sid \notin Range(connectLog') => PayloadRecords(sent', sid, data) = {}
       /\ \A sid \in 1..Len(sessions) :
             (sid \notin Range(connectLog) /\ sid \in Range(connectLog'))
             => LET queued == <<sessions[sid].connectMsg>> \o sessions[sid].messageQueue
                IN  /\ Len(sent') = Len(sent) + Len(queued)
                    /\ \A i \in 1..Len(queued) :
                          \E j \in PayloadRecords(sent', sid, queued[i]) :
                             /\ j > Len(sent)
                             /\ sent'[j].key = sessions'[sid].securityParameters.clientWriteKey
                             /\ sent'[j].key # NoSecret]_vars

\* C6: of two payloads of one session, the one submitted first (the smaller
\* number) is first transmitted in the earlier record, and that record has
\* the smaller sequence number.
C6_QueueFifo ==
    \A sid \in 1..Len(sessions), p \in 1..sendCount, q \in 1..sendCount :
        LET ps == PayloadRecords(sent, sid, p)
            qs == PayloadRecords(sent, sid, q)
            first(S) == CHOOSE i \in S : \A j \in S : i <= j
        IN  (p < q /\ ps # {} /\ qs # {})
            => /\ first(ps) < first(qs)
               /\ sent[first(ps)].sequenceNumber < sent[first(qs)].sequenceNumber

\* The lookup key of session s: what DtlsSocket.send was called with.
KeyOf(s) == <<s.dstIpAddress, s.pskIdentity, s.pskPassword>>

ClientFinished == {i \in 1..Len(sent) : IsHandshake(sent[i], "Finished")}

ValueKey(s) == <<s.dstIpAddress, s.dstPort, s.pskIdentity.bytes, s.pskPassword>>

\* C9: the endpoint's list never holds two sessions with the same (address,
\* port, identity, secret), and a send whose (address, port, identity,
\* secret) equals that of a listed session creates no session, sends no
\* ClientHello, and has exactly the effect of that session's
\* sendApplicationData on the payload.
C9_OneSessionPerKey ==
    [][/\ \A i, j \in 1..Len(dtlsSessions') :
             i # j => ValueKey(sessions'[dtlsSessions'[i]])
                          # ValueKey(sessions'[dtlsSessions'[j]])
       /\ last'.op = "send" =>
             LET key == <<last'.key[1], PeerPort, last'.key[2].bytes, last'.key[3]>>
                 Matches(sid) == ValueKey(sessions[sid]) = key
                 found == FirstMatch(dtlsSessions,
                              {i \in 1..Len(dtlsSessions) : Matches(dtlsSessions[i])})
                 w == sendApplicationData(World, found, last'.data)
             IN  found # 0 =>
                    /\ Len(sessions') = Len(sessions)
                    /\ dtlsSessions' = dtlsSessions
                    /\ Len(ClientHellosOf(sent', found)) = Len(ClientHellosOf(sent, found))
                    /\ sessions' = w.sessions
                    /\ sent' = w.sent
                    /\ crashed' = w.crashed]_vars

\* The positions in the endpoint's list of the sessions whose destination
\* is src.
ListedAt(src) ==
    {i \in 1..Len(dtlsSessions) :
        /\ sessions[dtlsSessions[i]].dstIpAddress = src[1]
        /\ sessions[dtlsSessions[i]].dstPort = src[2]}

\* C10: a datagram is handled by the first listed session whose destination
\* (address, port) is the datagram's source, and by no other: sessions with
\* another destination keep their state and every record sent and callback
\* fired belongs to the handling session.  A datagram whose source is the
\* destination of no listed session changes nothing: no session, not the
\* list, nothing sent, no callback, the socket and the endpoint as before.
C10_InboundRouting ==
    [][last'.op = "message" =>
          LET src == last'.src
              at == ListedAt(src)
              Others == {sid \in 1..Len(sessions) :
                            <<sessions[sid].dstIpAddress, sessions[sid].dstPort>> # src}
              Added(old, new) == {new[i] : i \in (Len(old) + 1)..Len(new)}
          IN  IF at = {}
              THEN /\ last'.sid = 0
                   /\ UNCHANGED <<sessions, dtlsSessions, sent, socketOpen, crashed,
                                  connectLog, disconnectLog, delivered>>
              ELSE /\ \E i \in at : /\ last'.sid = dtlsSessions[i]
                                    /\ \A j \in at : i <= j
                   /\ Len(sessions') = Len(sessions)
                   /\ \A sid \in Others : sessions'[sid] = sessions[sid]
                   /\ \A record \in Added(sent, sent') : record.sid = last'.sid
                   /\ \A sid \in Added(connectLog, connectLog') : sid = last'.sid
                   /\ \A sid \in Added(disconnectLog, disconnectLog') : sid = last'.sid
                   /\ \A call \in Added(delivered, delivered') : call.sid = last'.sid]_vars

\* A datagram from a source that is no listed session's destination has
\* arrived while a session in its handshake was listed.
C10_StrangerDropped ==
    /\ last.op = "message"
    /\ last.sid = 0
    /\ last.src \in {<<StrangerAddress, PeerPort>>, <<ServerAddress, StrangerPort>>}
    /\ last.msg[1].protocolType = DtlsHandshakeProtocol
    /\ \E i \in 1..Len(dtlsSessions) :
          /\ sessions[dtlsSessions[i]].dstPort = PeerPort
          /\ sessions[dtlsSessions[i]].sessionState = ClientHelloSent
    /\ ~crashed

\* C11: when the resolver answers a send's host name with an error, the
\* callback changes nothing: no session is created, the endpoint's list and
\* every session are as before, nothing is handed to the socket, no callback
\* fires, and the payload of the send is in no session's queue.
C11_ResolveFailureDropsSend ==
    [][last'.op = "dropped" =>
          /\ UNCHANGED <<sessions, dtlsSessions, sent, socketOpen, crashed,
                         connectLog, disconnectLog, delivered>>
          /\ \A sid \in 1..Len(sessions') :
                /\ sessions'[sid].connectMsg # last'.data
                /\ last'.data \notin Range(sessions'[sid].messageQueue)]_vars

\* A resolution has failed while a session for the same identity and secret
\* was listed and another resolution was still in flight.
C11_SendDropped ==
    /\ last.op = "dropped"
    /\ last.key[1] = "server.example"
    /\ dtlsSessions # << >>
    /\ pending # {}
    /\ ~crashed

\* The records session sid has handed to the socket, in order.
OutboundOf(sid) ==
    LET EveryRecord(record) == TRUE
    IN  RecordsOf(sent, sid, EveryRecord)

\* C12: the first record of a session carries (epoch 0, sequence number 0),
\* and each next record either keeps the epoch and carries the sequence
\* number plus one, or follows a ChangeCipherSpec and carries the epoch plus
\* one and sequence number 0; so the pairs strictly increase and none
\* repeats.
C12_EpochSequenceIncreasing ==
    \A sid \in 1..Len(sessions) :
        LET records == OutboundOf(sid)
        IN  /\ records # << >> =>
                  records[1].epoch = 0 /\ records[1].sequenceNumber = 0
            /\ \A i \in 1..(Len(records) - 1) :
                  \/ /\ records[i + 1].epoch = records[i].epoch
                     /\ records[i + 1].sequenceNumber = records[i].sequenceNumber + 1
                  \/ /\ records[i].protocolType = DtlsChangeCipherSpecProtocol
                     /\ records[i + 1].epoch = records[i].epoch + 1
                     /\ records[i + 1].sequenceNumber = 0
            /\ \A i, j \in 1..Len(records) :
                  i < j => \/ records[i].epoch < records[j].epoch
                           \/ /\ records[i].epoch = records[j].epoch
                              /\ records[i].sequenceNumber < records[j].sequenceNumber

\* A session has sent records in epoch 0, bumped the epoch, and sent more
\* than one record in epoch 1.
C12_TwoEpochsSent ==
    \E sid \in 1..Len(sessions) :
        LET records == OutboundOf(sid)
        IN  /\ Len(records) >= 5
            /\ records[1].epoch = 0
            /\ records[Len(records)].epoch = 1
            /\ records[Len(records)].sequenceNumber >= 1
            /\ IsApplicationData(records[Len(records)])

Decoded == codec.kind = "record" /\ codec.stage = "decoded"

\* C13: under an AES-CBC suite, decoding a record whose padding is wrong,
\* whose MAC is wrong, or both, has one and the same outcome (null), and the
\* MAC has been computed and compared on all of its 20 bytes whether or not
\* the padding was wrong.
C13_UniformDecodeFailure ==
    (Decoded /\ (\/ codec.decoded.verification.paddingError
                 \/ codec.decoded.verification.macHashError))
    => /\ codec.decoded.result = [outcome |-> "null"]
       /\ codec.decoded.verification.macBytesCompared = 20

\* A record with wrong padding and a right MAC has been decoded.
C13_BadPaddingDecoded ==
    /\ Decoded
    /\ codec.tamper = "padding"
    /\ codec.decoded.verification.paddingError
    /\ ~codec.decoded.verification.macHashError
    /\ codec.decoded.result = [outcome |-> "null"]

\* C14: a record made by createFromPlaintext, encoded under either AES-CBC
\* suite and decoded with the same keys, comes back with the same type,
\* version, epoch, sequence number and fragment, and bytesConsumed is the
\* whole length of the encoding.
C14_RecordRoundTrip ==
    (Decoded /\ codec.tamper = "none")
    => /\ codec.decoded.result.outcome = "record"
       /\ codec.decoded.result.record = RecordOf(codec.input)
       /\ codec.decoded.result.bytesConsumed = codec.encoded.length
       /\ codec.encoded.length = Len(codec.encoded.header) + codec.encoded.ivLength
                                  + CiphertextLength(codec.encoded.ciphertext)

\* The largest fragment, at the largest epoch and sequence number, has made
\* the round trip.
C14_LargestRecordDecoded ==
    /\ Decoded
    /\ codec.tamper = "none"
    /\ codec.input.length = MAX_PLAINTEXT_FRAGMENT_LENGTH
    /\ codec.input.epoch = 65535
    /\ codec.input.sequenceNumber = <<Limb - 1, Limb - 1>>
    /\ codec.decoded.result.outcome = "record"
    /\ Len(codec.decoded.result.record.fragment) = MAX_PLAINTEXT_FRAGMENT_LENGTH

MessageAt(stage) == codec.kind = "message" /\ codec.stage = stage

\* The fields are in the domain the codec declares.
LegalFields ==
    CASE codec.codecName = "Finished" ->
            IsBuffer(codec.fields.verifyData)
            /\ Len(codec.fields.verifyData.bytes) = VERIFY_DATA_LENGTH
      [] codec.codecName = "HelloVerifyRequest" ->
            /\ IsDtlsVersionValidValue(codec.fields.serverVersion)
            /\ \/ codec.fields.cookie.type \in {"null", "undefined"}
               \/ /\ IsBuffer(codec.fields.cookie)
                  /\ Len(codec.fields.cookie.bytes) \in 1..MAX_DTLS_10_COOKIE_LENGTH
      [] codec.codecName = "PskClientKeyExchange" ->
            IsBuffer(codec.fields.identity)
            /\ Len(codec.fields.identity.bytes) <= MAX_IDENTITY_LENGTH
      [] OTHER -> TRUE

\* C15: for Finished, HelloVerifyRequest (cookie of 1..32 bytes, null or
\* left out), PskClientKeyExchange and ServerHelloDone, fromBuffer of
\* toBuffer of a created message is a message with the same fields, with
\* bytesConsumed the serialized length; the version and the identity length
\* are written big-endian (0xFEFF as FE FF).
C15_CodecRoundTrip ==
    (MessageAt("parsed") /\ codec.via = "create" /\ ~codec.truncated /\ LegalFields)
    => /\ codec.created.outcome = "message"
       /\ codec.parsed.outcome = "parsed"
       /\ codec.parsed.message = codec.created.message
       /\ codec.parsed.bytesConsumed = Len(codec.serialized.buffer)
       /\ codec.codecName = "HelloVerifyRequest"
            => SubSeq(codec.serialized.buffer, 1, 2) = <<254, 255>>
       /\ codec.codecName = "PskClientKeyExchange"
            => codec.serialized.buffer[1] * 256 + codec.serialized.buffer[2]
                 = Len(codec.fields.identity.bytes)

\* A HelloVerifyRequest created without a cookie has made the round trip
\* and come back with a null cookie.
C15_NullCookieParsed ==
    /\ MessageAt("parsed")
    /\ codec.via = "create"
    /\ ~codec.truncated
    /\ codec.codecName = "HelloVerifyRequest"
    /\ codec.fields.cookie = JsUndefined
    /\ codec.parsed.outcome = "parsed"
    /\ codec.parsed.message.cookie = JsNullValue
    /\ codec.parsed.bytesConsumed = 3

\* The errors the codec's declared domain asks for: the fields a create was
\* given (a cookie left out is a null cookie) or a toBuffer found.
ExpectedErrors ==
    LET fields == codec.fields
        NotBuffer(value) == IF IsBuffer(value) THEN {} ELSE {"TypeError"}
        TooLong(value, max) ==
            IF IsBuffer(value) /\ Len(value.bytes) > max THEN {"RangeError"} ELSE {}
    IN  CASE codec.codecName = "Finished" ->
                NotBuffer(fields.verifyData)
                \cup (IF IsBuffer(fields.verifyData)
                         /\ Len(fields.verifyData.bytes) # VERIFY_DATA_LENGTH
                      THEN {"RangeError"} ELSE {})
          [] codec.codecName = "HelloVerifyRequest" ->
                (IF IsDtlsVersionValidValue(fields.serverVersion) THEN {}
                 ELSE {"RangeError"})
                \cup (IF \/ fields.cookie.type = "null"
                         \/ fields.cookie.type = "undefined" /\ codec.via = "create"
                      THEN {}
                      ELSE NotBuffer(fields.cookie)
                           \cup TooLong(fields.cookie, MAX_DTLS_10_COOKIE_LENGTH)
                           \cup (IF IsBuffer(fields.cookie) /\ Len(fields.cookie.bytes) = 0
                                 THEN {"RangeError"} ELSE {}))
          [] codec.codecName = "PskClientKeyExchange" ->
                NotBuffer(fields.identity) \cup TooLong(fields.identity, MAX_IDENTITY_LENGTH)
          [] OTHER -> {}

\* C16: create and toBuffer reject fields outside the domain with the typed
\* error of the defect (TypeError for a value that is not a Buffer,
\* RangeError for a wrong length or version) and produce no message and no
\* bytes.
C16_DomainErrorsRejected ==
    /\ (MessageAt("created") /\ codec.via = "create" /\ ExpectedErrors # {})
       => /\ codec.created.outcome = "throws"
          /\ codec.created.error \in ExpectedErrors
    /\ (MessageAt("serialized") /\ codec.via = "assign" /\ ~codec.truncated
        /\ ExpectedErrors # {})
       => /\ codec.serialized.outcome = "throws"
          /\ codec.serialized.error \in ExpectedErrors

Validated == codec.kind = "validate" /\ codec.stage = "validated"

\* The defects of the arguments ValidateDeserializationArguments was given.
TypeDefect ==
    \/ ~IsBuffer(codec.buffer)
    \/ codec.offset.type \notin {"undefined", "number"}
    \/ codec.minimumLength.type # "number"

RangeDefect ==
    \/ codec.minimumLength.type = "number" /\ codec.minimumLength.number < 0
    \/ /\ codec.offset.type = "number"
       /\ IsBuffer(codec.buffer)
       /\ \/ codec.offset.number < 0
          \/ codec.offset.number > Len(codec.buffer.bytes)

\* C17: ValidateDeserializationArguments throws TypeError for a buffer that
\* is not a Buffer, an offset that is neither undefined nor a number, or a
\* minimumLength that is not a number; RangeError for a negative
\* minimumLength or an offset below 0 or beyond buffer.length; otherwise it
\* returns false exactly when buffer.length - offset < minimumLength
\* (offset undefined counting as 0) and true otherwise; and the parsers
\* that use it return null, and throw nothing, on a buffer cut short.
C17_ValidateDeserializationArguments ==
    /\ Validated =>
          /\ codec.result = "TypeError" => TypeDefect
          /\ codec.result = "RangeError" => RangeDefect
          /\ (TypeDefect \/ RangeDefect) => codec.result \in {"TypeError", "RangeError"}
          /\ ~(TypeDefect \/ RangeDefect) =>
                codec.result =
                    IF Len(codec.buffer.bytes) - InitialOffset(codec.offset)
                          < codec.minimumLength.number
                    THEN "false" ELSE "true"
    /\ (MessageAt("parsed") /\ codec.truncated /\ codec.codecName # "Finished")
          => codec.parsed = ReturnsNull

\* An offset at the very end of a 4-byte buffer was accepted, and the
\* buffer found too short for two more bytes.
C17_OffsetAtEndValidated ==
    /\ Validated
    /\ codec.buffer = JsBuffer(Bytes(4))
    /\ codec.offset = JsNumber(4)
    /\ codec.minimumLength = JsNumber(2)
    /\ codec.result = "false"

\* The datagram of this step is one record that session last'.sid decodes
\* to body under the read state it had.
Received(body) ==
    /\ last'.op = "message" /\ last'.sid # 0 /\ Len(last'.msg) = 1
    /\ fromEncryptedBuffer(sessions[last'.sid], last'.msg[1]) = body

\* C18: a server Finished whose verify data does not match terminates the
\* session: it does not stay in FinishedSent and it is no longer in the
\* list that sends and inbound datagrams are looked up in.
C18_BadFinishedTerminatesSession ==
    [][(/\ Received(Finished(Flip(ServerVerifyData(sessions[last'.sid]))))
        /\ last'.msg[1].protocolType = DtlsHandshakeProtocol
        /\ sessions[last'.sid].sessionState = FinishedSent
        /\ sessions[last'.sid].securityParameters.masterSecret # NoSecret
        /\ last'.sid \in Range(dtlsSessions))
       => /\ sessions'[last'.sid].sessionState # FinishedSent
          /\ last'.sid \notin Range(dtlsSessions')]_vars

\* C19: an Alert with description BadRecordMac, at level Warning or Fatal,
\* terminates the session that receives it.
C19_BadRecordMacIsFatal ==
    [][(/\ \E level \in {Warning, Fatal} : Received(Alert(level, BadRecordMac))
        /\ last'.msg[1].protocolType = DtlsAlertProtocol
        /\ last'.sid \in Range(dtlsSessions))
       => last'.sid \notin Range(dtlsSessions')]_vars

\* The session has taken in a ServerHello with a suite other than the two
\* PSK AES suites or with a compression method other than NULL.
RefusedServerHelloSeen(s) ==
    \E i \in 1..Len(s.allHandshakeMessagesAsBuffer) :
        LET hm == s.allHandshakeMessagesAsBuffer[i]
        IN  /\ hm.messageType = "ServerHello"
            /\ \/ hm.message.cipherSuite \notin
                     {TLS_PSK_WITH_AES_128_CBC_SHA, TLS_PSK_WITH_AES_256_CBC_SHA}
               \/ hm.message.compressionMethod # 0

\* C20: once a session has taken in such a ServerHello, no later datagram
\* makes it send ClientKeyExchange, ChangeCipherSpec or Finished, derive a
\* master secret, or become Connected.
C20_RefusedServerHelloAborts ==
    [][\A sid \in 1..Len(sessions) :
          RefusedServerHelloSeen(sessions[sid])
          => /\ \A i \in (Len(sent) + 1)..Len(sent') :
                   sent'[i].sid = sid
                   => /\ ~IsHandshake(sent'[i], "ClientKeyExchange")
                      /\ ~IsHandshake(sent'[i], "Finished")
                      /\ sent'[i].protocolType # DtlsChangeCipherSpecProtocol
             /\ sessions'[sid].securityParameters.masterSecret
                   = sessions[sid].securityParameters.masterSecret
             /\ sessions'[sid].sessionState = Connected
                   => sessions[sid].sessionState = Connected]_vars

\* The datagram of this step is one handshake record that session
\* last'.sid decodes, under the read state it had, to a handshake message of
\* one of the types in messageTypes.
ReceivedHandshake(messageTypes) ==
    /\ last'.op = "message" /\ last'.sid # 0 /\ Len(last'.msg) = 1
    /\ last'.msg[1].protocolType = DtlsHandshakeProtocol
    /\ LET hm == fromEncryptedBuffer(sessions[last'.sid], last'.msg[1])
       IN  /\ "messageType" \in DOMAIN hm
           /\ hm.messageType \in messageTypes

HasServerHello(s) ==
    \E i \in 1..Len(s.allHandshakeMessagesAsBuffer) :
        s.allHandshakeMessagesAsBuffer[i].messageType = "ServerHello"

\* C21: a handshake message that the session's state does not expect (any
\* once Connected, a ServerHelloDone before any ServerHello, a server
\* Finished in ClientHelloSent) is dropped in silence: no record is sent,
\* the state and the handshake sequence stay as they were, nothing throws.
C21_UnexpectedHandshakeDropped ==
    [][(\/ /\ ReceivedHandshake({"HelloVerifyRequest", "ServerHello",
                                 "ServerHelloDone", "Finished"})
           /\ sessions[last'.sid].sessionState = Connected
        \/ /\ ReceivedHandshake({"ServerHelloDone"})
           /\ ~HasServerHello(sessions[last'.sid])
        \/ /\ ReceivedHandshake({"Finished"})
           /\ sessions[last'.sid].sessionState = ClientHelloSent)
       => /\ sent' = sent
          /\ sessions'[last'.sid].sessionState = sessions[last'.sid].sessionState
          /\ sessions'[last'.sid].handshakeMessageSequence
                = sessions[last'.sid].handshakeMessageSequence
          /\ ~crashed']_vars


\* The handshake messages session sid sent in this step, in the order sent.
SentHandshakes(sid) ==
    LET new == SubSeq(sent', Len(sent) + 1, Len(sent'))
        hs == SelectSeq(new, LAMBDA r : r.sid = sid /\ r.protocolType = DtlsHandshakeProtocol)
    IN  [i \in 1..Len(hs) |-> hs[i].fragment]

\* The handshake messages of the datagram of this step, in order.
DatagramHandshakes ==
    LET hs == SelectSeq(last'.msg, LAMBDA r : r.protocolType = DtlsHandshakeProtocol)
    IN  [i \in 1..Len(hs) |-> hs[i].body]

\* A HelloVerifyRequest is answered with one handshake message, a
\* ServerHelloDone with two.
Replies(hm) ==
    CASE hm.messageType = "HelloVerifyRequest" -> 1
      [] hm.messageType = "ServerHelloDone" -> 2
      [] OTHER -> 0

\* The transcript t after the messages received were taken in order, each
\* followed by the answers to it out of sentMessages; a HelloVerifyRequest
\* empties it, a received message is added when its type is in transcribed.
RECURSIVE Transcribe(_, _, _, _)
Transcribe(t, received, sentMessages, transcribed) ==
    IF received = << >> THEN t \o sentMessages
    ELSE LET hm == Head(received)
             n == IF Replies(hm) < Len(sentMessages) THEN Replies(hm)
                  ELSE Len(sentMessages)
             t1 == IF hm.messageType = "HelloVerifyRequest" THEN << >>
                   ELSE IF hm.messageType \in transcribed THEN Append(t, hm)
                   ELSE t
         IN  Transcribe(t1 \o SubSeq(sentMessages, 1, n), Tail(received),
                        SubSeq(sentMessages, n + 1, Len(sentMessages)), transcribed)

\* In every step that does not end in an exception, the transcript of every
\* session is its transcript before, with the handshake messages of the
\* step taken in by Transcribe.
TranscriptFollows(transcribed) ==
    ~crashed' =>
    \A sid \in 1..Len(sessions') :
        LET before == IF sid <= Len(sessions)
                      THEN sessions[sid].allHandshakeMessagesAsBuffer ELSE << >>
            received == IF last'.op = "message" /\ last'.sid = sid
                        THEN DatagramHandshakes ELSE << >>
        IN  sessions'[sid].allHandshakeMessagesAsBuffer
                = Transcribe(before, received, SentHandshakes(sid), transcribed)

MessageTypes(t) == [i \in 1..Len(t) |-> t[i].messageType]

\* C22 as stated: the transcript is the ordered concatenation of all the
\* handshake messages sent and received since the last HelloVerifyRequest,
\* the server's Finished among them.
C22_TranscriptHoldsAllHandshakes ==
    [][TranscriptFollows({"ServerHello", "ServerHelloDone", "Finished"})]_vars

\* C22: the transcript is the ordered concatenation of the handshake
\* messages sent and of the ServerHello and ServerHelloDone messages
\* received since the last HelloVerifyRequest, which alone empties it; a
\* received Finished is not added.  A session becomes Connected only on a
\* Finished whose verify data is PRF(master secret, "server finished",
\* MD5 and SHA-1 of that transcript, 12), and with a server that follows
\* the handshake the transcript is then ClientHello, ServerHello,
\* ServerHelloDone, ClientKeyExchange, client Finished.
C22_ServerFinishedOverTranscript ==
    [][/\ TranscriptFollows({"ServerHello", "ServerHelloDone"})
       /\ \A sid \in 1..Len(sessions) :
            (sessions[sid].sessionState # Connected
             /\ sessions'[sid].sessionState = Connected)
            => /\ last'.sid = sid
               /\ \E i \in 1..Len(DatagramHandshakes) :
                    /\ DatagramHandshakes[i].messageType = "Finished"
                    /\ DatagramHandshakes[i].message.verifyData =
                         PRF(sessions'[sid].securityParameters.masterSecret,
                             "server finished",
                             TranscriptHash(sessions'[sid].allHandshakeMessagesAsBuffer), 12)
               /\ peer'.faults = 0 =>
                    MessageTypes(sessions'[sid].allHandshakeMessagesAsBuffer)
                        = <<"ClientHello", "ServerHello", "ServerHelloDone",
                            "ClientKeyExchange", "Finished">>]_vars

\* A session is Connected over the five-message transcript.
C22_ConnectedOverTranscript ==
    \E sid \in 1..Len(sessions) :
        /\ sessions[sid].sessionState = Connected
        /\ MessageTypes(sessions[sid].allHandshakeMessagesAsBuffer)
               = <<"ClientHello", "ServerHello", "ServerHelloDone",
                   "ClientKeyExchange", "Finished">>


\* C23: the outbound epoch never exceeds 2^16 - 1 and the outbound sequence
\* number never exceeds 2^48 - 1, in the session's counters as in the records
\* it emits.
C23_CountersWithinLimits ==
    codec.kind = "counters" =>
        /\ codec.nextOutgoingEpoch <= 65535
        /\ codec.nextOutgoingSequenceNumber[1] < Limb
        /\ \A i \in 1..Len(codec.emitted) :
              /\ codec.emitted[i].epoch <= 65535
              /\ codec.emitted[i].sequenceNumber[1] < Limb


\* The buffer handed to the cipher for an untouched record has been built.
Encoded == codec.kind = "record" /\ codec.stage = "encoded" /\ codec.tamper = "none"

\* The buffer handed to the cipher is fragment, MAC, padLen padding bytes
\* and the length byte, each of the last padLen + 1 bytes equal to padLen,
\* and its length is a multiple of the block size.
PaddedTo(padLen) ==
    LET plain == codec.encoded.ciphertext.plain
        L == codec.input.length
    IN  /\ Len(plain) = L + 20 + padLen + 1
        /\ \A i \in (L + 20 + 1)..Len(plain) : plain[i] = padLen
        /\ Len(plain) % 16 = 0

\* C24 as stated: padLen = block - ((L + mac_len + 1) mod block), between 1
\* and block.
C24_PaddingOfOneToBlock ==
    Encoded => PaddedTo(16 - ((codec.input.length + 20 + 1) % 16))

\* C24: padLen is the least number that makes L + mac_len + padLen + 1 a
\* multiple of block, (block - ((L + mac_len + 1) mod block)) mod block,
\* between 0 and block - 1; every padding byte and the length byte equal it.
C24_LeastPadding ==
    Encoded => PaddedTo((16 - ((codec.input.length + 20 + 1) % 16)) % 16)

\* A fragment of 11 bytes has been encoded: with the MAC and the length byte
\* it is two blocks, and no padding byte was added.
C24_AlignedFragmentEncoded ==
    /\ Encoded
    /\ codec.input.length = 11
    /\ Len(codec.encoded.ciphertext.plain) = 32
    /\ codec.encoded.ciphertext.plain[32] = 0


\* This step is sendApplicationData(last'.data) on the listed session
\* last'.sid that DtlsSocket.send found for its destination.
SentOnSession == last'.op = "send" /\ last'.sid # 0

C26_UndecodableRecordAbandoned ==
    [][(/\ last'.op = "message" /\ last'.sid # 0 /\ Len(last'.msg) = 1
        /\ fromEncryptedBuffer(sessions[last'.sid], last'.msg[1]) = Undecodable)
       => /\ ~crashed'
          /\ sessions' = sessions
          /\ dtlsSessions' = dtlsSessions
          /\ sent' = sent
          /\ connectLog' = connectLog
          /\ disconnectLog' = disconnectLog
          /\ delivered' = delivered
          /\ socketOpen' = socketOpen]_vars


\* The datagram of this step is one ChangeCipherSpec record that session
\* last'.sid decodes to a message of the given type.
ReceivedChangeCipherSpec(type) ==
    /\ last'.op = "message" /\ last'.sid # 0 /\ Len(last'.msg) = 1
    /\ last'.msg[1].protocolType = DtlsChangeCipherSpecProtocol
    /\ fromEncryptedBuffer(sessions[last'.sid], last'.msg[1]) = ChangeCipherSpec(type)

\* Nothing outside the sessions changes in this step.
OnlySessionsChange ==
    /\ dtlsSessions' = dtlsSessions
    /\ sent' = sent
    /\ socketOpen' = socketOpen
    /\ crashed' = crashed
    /\ connectLog' = connectLog
    /\ disconnectLog' = disconnectLog
    /\ delivered' = delivered

\* C27: a ChangeCipherSpec of type 1 sets the read state of the session to
\* the bulk cipher, compression method and MAC of its security parameters
\* and changes nothing else; one of another type changes nothing at all.
C27_ChangeCipherSpecFrame ==
    [][/\ ReceivedChangeCipherSpec(1) =>
            /\ OnlySessionsChange
            /\ sessions' = [sessions EXCEPT ![last'.sid].currentReadState =
                   DtlsConnectionState(
                       sessions[last'.sid].securityParameters.bulkEncryptionAlgorithm,
                       sessions[last'.sid].securityParameters.compressionMethod,
                       sessions[last'.sid].securityParameters.macAlgorithm)]
       /\ ReceivedChangeCipherSpec(2) =>
            /\ OnlySessionsChange
            /\ sessions' = sessions]_vars

\* A ChangeCipherSpec of type 1 has put the negotiated AES-CBC suite in the
\* read state of a session that has sent its Finished.
C27_ReadStateSwitched ==
    /\ last.op = "message" /\ last.sid # 0 /\ Len(last.msg) = 1
    /\ last.msg[1].protocolType = DtlsChangeCipherSpecProtocol
    /\ last.msg[1].body = ChangeCipherSpec(1)
    /\ sessions[last.sid].sessionState = FinishedSent
    /\ sessions[last.sid].currentReadState.bulkEncryptionAlgorithm
          \in {"AES_128_CBC", "AES_256_CBC"}
    /\ sessions[last.sid].currentReadState.macAlgorithm = "SHA1"


\* The keys of session sid are derived in this step.
KeysDerived(sid) ==
    /\ sid <= Len(sessions)
    /\ sessions'[sid].securityParameters.clientWriteKey
          # sessions[sid].securityParameters.clientWriteKey

\* C28: the key block is PRF(master secret, "key expansion", server random
\* then client random) of length 2 * mac_len + 2 * key_len, and the four
\* secrets are its consecutive pieces, in the order client MAC secret,
\* server MAC secret, client key, server key, with no byte shared or left
\* over; mac_len is 20, key_len 32 under AES_256_CBC and 16 under
\* AES_128_CBC.
C28_KeyBlockPartition ==
    [][\A sid \in 1..Len(sessions') :
        KeysDerived(sid) =>
          LET sp == sessions'[sid].securityParameters
              keyLength == IF sp.bulkEncryptionAlgorithm = "AES_256_CBC" THEN 32 ELSE 16
              keyBlock == PRF(sp.masterSecret, "key expansion",
                              <<sp.serverRandom, sp.clientRandom>>,
                              20 + 20 + keyLength + keyLength)
          IN  /\ sp.bulkEncryptionAlgorithm \in {"AES_128_CBC", "AES_256_CBC"}
              /\ sp.macAlgorithm = "SHA1"
              /\ sp.clientWriteMacSecret = KeyBlockSlice(keyBlock, 0, 20)
              /\ sp.serverWriteMacSecret = KeyBlockSlice(keyBlock, 20, 20)
              /\ sp.clientWriteKey = KeyBlockSlice(keyBlock, 40, keyLength)
              /\ sp.serverWriteKey = KeyBlockSlice(keyBlock, 40 + keyLength, keyLength)
              /\ 40 + keyLength + keyLength = keyBlock.outputLength]_vars

\* A session holds the four pieces of a 104-byte key block under
\* AES_256_CBC.
C28_KeysOfAes256Derived ==
    \E sid \in 1..Len(sessions) :
        LET sp == sessions[sid].securityParameters
        IN  /\ sp.bulkEncryptionAlgorithm = "AES_256_CBC"
            /\ sp.serverWriteKey.kind = "slice"
            /\ sp.serverWriteKey.offset = 72
            /\ sp.serverWriteKey.length = 32
            /\ sp.serverWriteKey.of.outputLength = 104


\* C29: PRF splits a secret of n >= 1 bytes into S1, its first ceil(n / 2)
\* bytes, and S2, its last ceil(n / 2) bytes: the halves have the same
\* length, and they share exactly the middle byte when n is odd and no byte
\* when n is even.
C29_SecretHalves ==
    (codec.kind = "prf" /\ codec.stage = "split") =>
        LET n == Len(codec.secret)
            half == (n + 1) \div 2
        IN  /\ codec.halves.first = SubSeq(codec.secret, 1, half)
            /\ codec.halves.second = SubSeq(codec.secret, n - half + 1, n)
            /\ Len(codec.halves.first) = Len(codec.halves.second)


\* The handshake sequence number that the handshake gives to a message of
\* the session: 0 to ClientHello, with or without cookie, 1 to
\* ClientKeyExchange, 2 to Finished.
HandshakeSequenceOf(messageType) ==
    CASE messageType = "ClientHello" -> 0
      [] messageType = "ClientKeyExchange" -> 1
      [] messageType = "Finished" -> 2

\* C30: every ClientHello a session sends, the first and the one that
\* answers a HelloVerifyRequest, carries message sequence 0, every
\* ClientKeyExchange 1 and every client Finished 2 (ChangeCipherSpec takes no
\* number), each unfragmented: fragment offset 0 and fragment length the
\* length of the message.
C30_HandshakeSequenceNumbers ==
    \A i \in 1..Len(sent) :
        sent[i].protocolType = DtlsHandshakeProtocol
        => /\ sent[i].fragment.messageSequence
                 = HandshakeSequenceOf(sent[i].fragment.messageType)
           /\ sent[i].fragment.fragmentOffset = 0
           /\ sent[i].fragment.lengthIsBody


\* C31: whatever datagrams arrive, the connect listener of a session is
\* called at most once, and the payload it sends is carried by at most one
\* record.
C31_ConnectListenerAtMostOnce ==
    \A sid \in 1..Len(sessions) :
        /\ Cardinality({i \in 1..Len(connectLog) : connectLog[i] = sid}) <= 1
        /\ Cardinality({i \in 1..Len(sent) :
                          /\ sent[i].sid = sid
                          /\ sent[i].protocolType = DtlsApplicationDataProtocol
                          /\ sent[i].fragment.data = sessions[sid].connectMsg}) <= 1


\* C32: a session that is FinishedSent or Connected is not returned to
\* ClientHelloSent by anything that arrives, its transcript is not emptied
\* and it sends no ClientHello.
C32_StateMovesForward ==
    [][\A sid \in 1..Len(sessions) :
        sessions[sid].sessionState \in {FinishedSent, Connected}
        => /\ sessions'[sid].sessionState \in {FinishedSent, Connected}
           /\ Len(sessions'[sid].allHandshakeMessagesAsBuffer)
                 >= Len(sessions[sid].allHandshakeMessagesAsBuffer)
           /\ \A i \in (Len(sent) + 1)..Len(sent') :
                 ~(sent'[i].sid = sid /\ IsHandshake(sent'[i], "ClientHello"))]_vars


\* The session has sent its Finished.
FinishedWasSent(sid) ==
    \E i \in 1..Len(sent) : sent[i].sid = sid /\ IsHandshake(sent[i], "Finished")

\* C33: the second flight and the key derivation happen at most once per
\* session: once its Finished is sent a session sends no further
\* ClientKeyExchange, ChangeCipherSpec or Finished, its master secret and
\* keys stay as they are, and its outgoing epoch never exceeds 1.
C33_SecondFlightAtMostOnce ==
    [][\A sid \in 1..Len(sessions) :
        /\ sessions'[sid].nextOutgoingEpoch <= 1
        /\ FinishedWasSent(sid)
           => /\ \A i \in (Len(sent) + 1)..Len(sent') :
                    sent'[i].sid = sid
                    => /\ ~IsHandshake(sent'[i], "ClientKeyExchange")
                       /\ ~IsHandshake(sent'[i], "Finished")
                       /\ sent'[i].protocolType # DtlsChangeCipherSpecProtocol
              /\ sessions'[sid].securityParameters.masterSecret
                    = sessions[sid].securityParameters.masterSecret
              /\ sessions'[sid].securityParameters.clientWriteKey
                    = sessions[sid].securityParameters.clientWriteKey]_vars


\* C34: application data is handed to the message listener only by a
\* session that is Connected and that read the record under a negotiated
\* AES-CBC read state; a cleartext record before the handshake has completed
\* is not delivered.
C34_DeliveryOnlyWhenConnected ==
    [][Len(delivered') > Len(delivered)
       => /\ last'.op = "message" /\ last'.sid # 0
          /\ sessions[last'.sid].sessionState = Connected
          /\ sessions[last'.sid].currentReadState.bulkEncryptionAlgorithm
                \in {"AES_128_CBC", "AES_256_CBC"}
          /\ \A i \in 1..Len(last'.msg) :
                last'.msg[i].protocolType = DtlsApplicationDataProtocol
                => last'.msg[i].protection = "AES"]_vars


NegotiatedState(state) ==
    /\ state.bulkEncryptionAlgorithm \in {"AES_128_CBC", "AES_256_CBC"}
    /\ state.macAlgorithm = "SHA1"

\* C35: a Connected session writes and reads under a negotiated AES-CBC /
\* HMAC-SHA1 state, and no application-data record is sent under the NULL
\* write state.
C35_ConnectedIsProtected ==
    /\ \A sid \in 1..Len(sessions) :
          sessions[sid].sessionState = Connected
          => /\ NegotiatedState(sessions[sid].currentWriteState)
             /\ NegotiatedState(sessions[sid].currentReadState)
    /\ \A i \in 1..Len(sent) :
          sent[i].protocolType = DtlsApplicationDataProtocol
          => sent[i].bulkEncryptionAlgorithm \in {"AES_128_CBC", "AES_256_CBC"}


\* The disconnect listener of session sid is called in this step.
Disconnected(sid) ==
    /\ Len(disconnectLog') > Len(disconnectLog)
    /\ disconnectLog'[Len(disconnectLog')] = sid

\* C36: a CloseNotify received by one session leaves every other session as
\* it was and in the list, and leaves the shared socket open.
C36_CloseNotifyAffectsOneSession ==
    [][\A sid \in 1..Len(sessions) :
        Disconnected(sid)
        => /\ socketOpen'
           /\ \A other \in 1..Len(sessions) :
                 other # sid
                 => /\ sessions'[other] = sessions[other]
                    /\ other \in Range(dtlsSessions) => other \in Range(dtlsSessions')]_vars


\* The records of the datagram handled in this step that follow a CloseNotify
\* alert of the same datagram.
AfterCloseNotify ==
    {i \in 1..Len(last'.msg) :
        \E j \in 1..(i - 1) :
            /\ last'.msg[j].protocolType = DtlsAlertProtocol
            /\ last'.msg[j].body.kind = "Alert"
            /\ last'.msg[j].body.description = CloseNotify}

\* C37: once the disconnect listener of a session was called and the session
\* was removed from the list, the session calls no connect or message
\* listener and sends no datagram, the records that follow the CloseNotify in
\* the same datagram included.
C37_SilentAfterDisconnect ==
    [][\A sid \in 1..Len(sessions) :
        /\ (\E i \in 1..Len(disconnectLog) : disconnectLog[i] = sid)
           => /\ \A i \in (Len(sent) + 1)..Len(sent') : sent'[i].sid # sid
              /\ \A i \in (Len(connectLog) + 1)..Len(connectLog') : connectLog'[i] # sid
              /\ \A i \in (Len(delivered) + 1)..Len(delivered') : delivered'[i].sid # sid
        /\ (Disconnected(sid) /\ AfterCloseNotify # {})
           => /\ Len(delivered') = Len(delivered)
              /\ Len(connectLog') = Len(connectLog)
              /\ sessions'[sid].sessionState = sessions[sid].sessionState]_vars

\* C38: no two sessions of the list have the same destination address and
\* port.
C38_DestinationsDistinct ==
    \A i, j \in 1..Len(dtlsSessions) :
        (/\ sessions[dtlsSessions[i]].dstIpAddress = sessions[dtlsSessions[j]].dstIpAddress
         /\ sessions[dtlsSessions[i]].dstPort = sessions[dtlsSessions[j]].dstPort)
        => i = j


\* A resolver callback that was handed addresses ran in this step and threw
\* nothing.
Resolved ==
    /\ Cardinality(pending') < Cardinality(pending)
    /\ last'.op = "send"
    /\ ~crashed'

\* Session s is the one DtlsSocket.send looks up for the key of this step.
KeyedAsLast(s) ==
    /\ s.dstIpAddress = last'.key[1]
    /\ s.dstPort = PeerPort
    /\ s.pskIdentity = last'.key[2]
    /\ s.pskPassword = last'.key[3]

\* The records sent in this step.
NewlySent == {sent'[i] : i \in (Len(sent) + 1)..Len(sent')}

====
